---- MODULE Spec2Model ----
(***************************************************************************)
(* A model of backend/Nepr/api/services/sparql_service.py: the record      *)
(* materializer (populate_article_data and its sub-entity builders) and    *)
(* the recommendation pipeline (get_recommendations, preference            *)
(* extraction, candidate retrieval with relaxation, ranking).              *)
(***************************************************************************)
EXTENDS Integers, Sequences, FiniteSets, TLC

VARIABLES
    pc,                 \* position of the running call
    results,            \* populate_article_data: the binding rows of the triple query
    url,                \* populate_article_data: the url argument
    article_data,       \* populate_article_data: the record under construction
    ridx,               \* populate_article_data: index of the next row of the for loop
    user_history,       \* get_recommendations: the history urls
    hidx,               \* get_recommendations: index of the next url of the for loop
    fetched,            \* what the triple store answered for each url so far
    viewed_articles,    \* get_recommendations: the materialized history
    preferences,        \* get_recommendations: the extracted profile
    searches,           \* the advanced_search invocations made so far
    candidate_articles, \* what _get_candidate_articles returned
    similarity,         \* the vectorizer's similarity of a text to the viewed texts
    max_recommendations,
    recommendations     \* what the call returned

matVars == <<results, url, article_data, ridx>>
recoVars == <<user_history, hidx, fetched, viewed_articles, preferences, searches,
              candidate_articles, similarity, max_recommendations, recommendations>>
vars == <<pc, matVars, recoVars>>

(***************************************************************************)
(* Python values.  A value is a record tagged with its Python type, so     *)
(* that truthiness, isinstance and == behave as in the interpreter.        *)
(***************************************************************************)
PyNone == [t |-> "none"]
PyStr(s) == [t |-> "str", v |-> s]
PyInt(n) == [t |-> "int", v |-> n]
PyList(q) == [t |-> "list", v |-> q]
PyDict(d) == [t |-> "dict", v |-> d]

\* The dict {} : a mapping with no key.
EmptyDict == PyDict(<<>>)

\* bool(x)
Truthy(x) ==
    CASE x.t = "none" -> FALSE
      [] x.t = "str" -> x.v /= ""
      [] x.t = "int" -> x.v /= 0
      [] x.t = "list" -> x.v /= <<>>
      [] x.t = "dict" -> DOMAIN x.v /= {}

\* d.get(k) on a dict value d (None when the key is missing)
DictGet(d, k) == IF k \in DOMAIN d.v THEN d.v[k] ELSE PyNone

\* x in q, for a sequence q of values (list membership by ==)
InSeq(x, q) == \E i \in 1..Len(q) : q[i] = x

\* q.count(x)
Count(x, q) == Cardinality({i \in 1..Len(q) : q[i] = x})

\* The outcome of an expression that may raise.
Ok(x) == [ok |-> TRUE, val |-> x]
Raised == [ok |-> FALSE]

\* x in c : list membership compares by ==; dict membership hashes x, and
\* hashing a dict or a list raises TypeError.
PyIn(x, c) ==
    CASE c.t = "list" -> Ok(InSeq(x, c.v))
      [] c.t = "dict" -> IF x.t \in {"dict", "list"} THEN Raised
                         ELSE Ok(x.t = "str" /\ x.v \in DOMAIN c.v)
      [] OTHER -> Raised

(***************************************************************************)
(* int(s) on a string: an optional sign followed by decimal digits.        *)
(***************************************************************************)
DigitValue(c) ==
    CASE c = "0" -> 0 [] c = "1" -> 1 [] c = "2" -> 2 [] c = "3" -> 3
      [] c = "4" -> 4 [] c = "5" -> 5 [] c = "6" -> 6 [] c = "7" -> 7
      [] c = "8" -> 8 [] c = "9" -> 9 [] OTHER -> -1

RECURSIVE DigitsValue(_, _)
\* the value of the digit string s read after the prefix value acc; -1 if
\* some character is not a digit
DigitsValue(s, acc) ==
    IF Len(s) = 0 THEN acc
    ELSE LET d == DigitValue(SubSeq(s, 1, 1))
         IN IF d < 0 THEN -1 ELSE DigitsValue(SubSeq(s, 2, Len(s)), 10 * acc + d)

PyIntParse(x) ==
    IF x.t /= "str" \/ Len(x.v) = 0 THEN Raised
    ELSE LET signed == SubSeq(x.v, 1, 1) \in {"-", "+"}
             body == IF signed THEN SubSeq(x.v, 2, Len(x.v)) ELSE x.v
             n == IF Len(body) = 0 THEN -1 ELSE DigitsValue(body, 0)
         IN IF n < 0 THEN Raised
            ELSE Ok(PyInt(IF SubSeq(x.v, 1, 1) = "-" THEN 0 - n ELSE n))

(***************************************************************************)
(* Binding rows.  A row of the two-hop query binds p and o, and subP and   *)
(* subO when the object has outgoing triples.                              *)
(***************************************************************************)
SCHEMA == "http://schema.org/"
S(name) == SCHEMA \o name

Row(p, o) == PyDict([p |-> PyStr(S(p)), o |-> PyStr(o)])
SubRow(p, o, subP, subO) ==
    PyDict([p |-> PyStr(S(p)), o |-> PyStr(o), subP |-> PyStr(S(subP)), subO |-> PyStr(subO)])

\* result.get(k, {}).get('value')
BindingValue(result, k) == DictGet(result, k)

\* The schema.org terms the code compares predicates and sub-predicates with.
SchemaTerms ==
    {"@type", "headline", "datePublished", "dateModified", "articleBody", "wordCount",
     "inLanguage", "thumbnailUrl", "articleSection", "abstract", "keywords", "url",
     "author", "publisher", "image", "thumbnail", "audio", "video", "editor",
     "dateCreated", "name", "jobTitle", "address", "affiliation", "birthDate",
     "birthPlace", "deathDate", "deathPlace", "email", "familyName", "gender",
     "givenName", "nationality", "height", "width", "caption", "transcript",
     "contentUrl", "duration", "embedUrl", "uploadDate"}
TermOfIri == [iri \in {S(f) : f \in SchemaTerms} |-> CHOOSE f \in SchemaTerms : S(f) = iri]

\* x == "http://schema.org/" + term, for a value x
IsTerm(x, term) == x.t = "str" /\ x.v \in DOMAIN TermOfIri /\ TermOfIri[x.v] = term
\* the term x names, or "" when x equals none of the compared IRIs
TermOf(x) == IF x.t = "str" /\ x.v \in DOMAIN TermOfIri THEN TermOfIri[x.v] ELSE ""

(***************************************************************************)
(* Sub-entity builders.  Each starts from a fixed-shape dict of None and   *)
(* rescans all rows whose object equals the object of the current row,     *)
(* assigning the field its sub-predicate names; height and width go        *)
(* through int().                                                          *)
(***************************************************************************)
Blank(fields) == [f \in fields |-> PyNone]

PersonFields ==
    {"name", "@type", "jobTitle", "address", "affiliation", "birthDate", "birthPlace",
     "deathDate", "deathPlace", "email", "familyName", "gender", "givenName", "nationality"}
OrganizationFields == {"name", "@type", "address", "affiliation", "email"}
ImageFields == {"height", "width", "url", "@type"}
AudioFields ==
    {"caption", "transcript", "@type", "contentUrl", "duration", "embedUrl", "height",
     "uploadDate", "width"}
VideoFields == AudioFields
IntFields == {"height", "width"}

\* The field of `data` named by the sub-predicate, or "" when no branch matches.
MatchedField(data, sub_predicate) ==
    IF TermOf(sub_predicate) \in DOMAIN data THEN TermOf(sub_predicate) ELSE ""

RECURSIVE ScanSubBreak(_, _, _, _, _)
\* Mutant of ScanSub: the scan stops at the first row of another object
\* instead of skipping it.
ScanSubBreak(data, ints, subject, rows, i) ==
    IF i > Len(rows) THEN Ok(PyDict(data))
    ELSE IF BindingValue(rows[i], "o") /= subject
         THEN IF i = 1 THEN ScanSubBreak(data, ints, subject, rows, i + 1) ELSE Ok(PyDict(data))
    ELSE LET f == MatchedField(data, BindingValue(rows[i], "subP"))
             sub_object_value == BindingValue(rows[i], "subO")
         IN IF f = "" THEN ScanSubBreak(data, ints, subject, rows, i + 1)
            ELSE IF f \in ints
                 THEN LET n == PyIntParse(sub_object_value)
                      IN IF n.ok
                         THEN ScanSubBreak([data EXCEPT ![f] = n.val], ints, subject, rows, i + 1)
                         ELSE Raised
                 ELSE ScanSubBreak([data EXCEPT ![f] = sub_object_value], ints, subject, rows, i + 1)

RECURSIVE ScanSub(_, _, _, _, _)
\* the for loop over zip(sub_predicates, sub_objects), from row i on
ScanSub(data, ints, subject, rows, i) ==
    IF i > Len(rows) THEN Ok(PyDict(data))
    ELSE IF BindingValue(rows[i], "o") /= subject THEN ScanSub(data, ints, subject, rows, i + 1)
    ELSE LET f == MatchedField(data, BindingValue(rows[i], "subP"))
             sub_object_value == BindingValue(rows[i], "subO")
         IN IF f = "" THEN ScanSub(data, ints, subject, rows, i + 1)
            ELSE IF f \in ints
                 THEN LET n == PyIntParse(sub_object_value)
                      IN IF n.ok
                         THEN ScanSub([data EXCEPT ![f] = n.val], ints, subject, rows, i + 1)
                         ELSE Raised
                 ELSE ScanSub([data EXCEPT ![f] = sub_object_value], ints, subject, rows, i + 1)

\* result.get('o', {}) raises AttributeError when `result` is not a dict.
BuildSub(fields, ints, result, rows) ==
    IF result.t /= "dict" THEN Raised
    ELSE IF rows.t /= "list" THEN Raised
    ELSE ScanSub(Blank(fields), ints, BindingValue(result, "o"), rows.v, 1)

populate_person(result, rows) == BuildSub(PersonFields, {}, result, rows)
populate_organization(result, rows) == BuildSub(OrganizationFields, {}, result, rows)
populate_image_data(result, rows) == BuildSub(ImageFields, IntFields, result, rows)
populate_audio_data(result, rows) == BuildSub(AudioFields, IntFields, result, rows)
populate_video_data(result, rows) == BuildSub(VideoFields, IntFields, result, rows)

(***************************************************************************)
(* populate_article_data                                                   *)
(***************************************************************************)
\* Mutant of InitialArticle: the url field starts empty.
InitialArticleWithoutUrl(u) ==
    [k \in {"@context", "@type", "url", "author", "publisher", "image", "keywords",
            "datePublished", "headline", "articleBody", "wordCount", "inLanguage",
            "thumbnailUrl", "thumbnail", "articleSection", "abstract", "audio", "video",
            "editor", "dateCreated", "dateModified"} |->
        CASE k = "@context" -> PyStr("http://schema.org")
          [] k \in {"author", "publisher", "image", "keywords", "thumbnail", "audio", "video"}
               -> PyList(<<>>)
          [] k = "editor" -> EmptyDict
          [] OTHER -> PyNone]

InitialArticle(u) ==
    [k \in {"@context", "@type", "url", "author", "publisher", "image", "keywords",
            "datePublished", "headline", "articleBody", "wordCount", "inLanguage",
            "thumbnailUrl", "thumbnail", "articleSection", "abstract", "audio", "video",
            "editor", "dateCreated", "dateModified"} |->
        CASE k = "@context" -> PyStr("http://schema.org")
          [] k = "url" -> PyStr(u)
          [] k \in {"author", "publisher", "image", "keywords", "thumbnail", "audio", "video"}
               -> PyList(<<>>)
          [] k = "editor" -> EmptyDict
          [] OTHER -> PyNone]

\* Predicates whose object is stored as is in the field of the same name.
ScalarPredicates ==
    {"@type", "headline", "datePublished", "dateModified", "articleBody", "inLanguage",
     "thumbnailUrl", "articleSection", "abstract", "url", "dateCreated"}

PyAppend(list, x) == PyList(Append(list.v, x))

\* The author branch: {} unless the row pairs the object with @type Person
\* or Organization; appended when not already in the list.
AuthorBranch(ad, result, rows) ==
    IF ~IsTerm(BindingValue(result, "subP"), "@type") THEN ad
    ELSE LET sub_object == BindingValue(result, "subO")
             author_data ==
                 IF sub_object = PyStr("Person") THEN populate_person(result, rows)
                 ELSE IF sub_object = PyStr("Organization") THEN populate_organization(result, rows)
                 ELSE Ok(EmptyDict)
         IN IF ~author_data.ok THEN ad
            ELSE IF ~InSeq(author_data.val, ad["author"].v)
                 THEN [ad EXCEPT !["author"] = PyAppend(@, author_data.val)]
                 ELSE ad

\* The publisher branch: as the author branch, and an empty dict is dropped.
PublisherBranch(ad, result, rows) ==
    IF ~IsTerm(BindingValue(result, "subP"), "@type") THEN ad
    ELSE LET sub_object == BindingValue(result, "subO")
             publisher_data ==
                 IF sub_object = PyStr("Person") THEN populate_person(result, rows)
                 ELSE IF sub_object = PyStr("Organization") THEN populate_organization(result, rows)
                 ELSE Ok(EmptyDict)
         IN IF ~publisher_data.ok THEN ad
            ELSE IF ~InSeq(publisher_data.val, ad["publisher"].v) /\ Truthy(publisher_data.val)
                 THEN [ad EXCEPT !["publisher"] = PyAppend(@, publisher_data.val)]
                 ELSE ad

\* Mutant of ImageBranch: the built record is appended without the
\* membership test.
ImageBranchNoDedup(ad, result, rows) ==
    LET image_data == populate_image_data(result, rows)
    IN IF ~image_data.ok THEN ad
       ELSE [ad EXCEPT !["image"] = PyAppend(@, image_data.val)]

ImageBranch(ad, result, rows) ==
    LET image_data == populate_image_data(result, rows)
    IN IF ~image_data.ok THEN ad
       ELSE IF ~InSeq(image_data.val, ad["image"].v)
            THEN [ad EXCEPT !["image"] = PyAppend(@, image_data.val)]
            ELSE ad

\* Mutant of ThumbnailBranch: a thumbnail already built is kept.
ThumbnailBranchKeepFirst(ad, result, rows) ==
    LET thumbnail_data == populate_image_data(result, rows)
    IN IF ~thumbnail_data.ok THEN ad
       ELSE IF Truthy(thumbnail_data.val) /\ ~Truthy(ad["thumbnail"])
            THEN [ad EXCEPT !["thumbnail"] = thumbnail_data.val]
            ELSE ad

ThumbnailBranch(ad, result, rows) ==
    LET thumbnail_data == populate_image_data(result, rows)
    IN IF ~thumbnail_data.ok THEN ad
       ELSE IF Truthy(thumbnail_data.val)
            THEN [ad EXCEPT !["thumbnail"] = thumbnail_data.val]
            ELSE ad

\* The call passes (results, result): the builder receives the row list
\* where it expects the row.
AudioBranch(ad, result, rows) ==
    LET audio_data == populate_audio_data(rows, result)
    IN IF ~audio_data.ok THEN ad
       ELSE IF Truthy(audio_data.val)
            THEN [ad EXCEPT !["audio"] = PyAppend(@, audio_data.val)]
            ELSE ad

VideoBranch(ad, result, rows) ==
    LET video_data == populate_video_data(rows, result)
    IN IF ~video_data.ok THEN ad
       ELSE IF Truthy(video_data.val)
            THEN [ad EXCEPT !["video"] = PyAppend(@, video_data.val)]
            ELSE ad

\* "editor" is always a key of article_data, so the field stays the dict it
\* was initialised to and `not in` is evaluated against that dict.
EditorBranch(ad, result, rows) ==
    LET editor_data == populate_person(result, rows)
        present == IF editor_data.ok THEN PyIn(editor_data.val, ad["editor"]) ELSE Raised
    IN IF ~present.ok THEN ad
       ELSE IF ~present.val /\ ad["editor"].t = "list"
            THEN [ad EXCEPT !["editor"] = PyAppend(@, editor_data.val)]
            ELSE ad

\* Mutant of ProcessResult: the object of a predicate without a branch is
\* kept among the keywords.
ProcessResultKeepsUnknown(ad, result, rows) ==
    LET predicate == BindingValue(result, "p")
        object_value == BindingValue(result, "o")
    IN CASE TermOf(predicate) \in ScalarPredicates ->
              [ad EXCEPT ![TermOf(predicate)] = object_value]
         [] IsTerm(predicate, "wordCount") ->
              LET n == PyIntParse(object_value)
              IN IF n.ok THEN [ad EXCEPT !["wordCount"] = n.val] ELSE ad
         [] IsTerm(predicate, "keywords") ->
              [ad EXCEPT !["keywords"] = PyAppend(@, object_value)]
         [] IsTerm(predicate, "author") -> AuthorBranch(ad, result, rows)
         [] IsTerm(predicate, "publisher") -> PublisherBranch(ad, result, rows)
         [] IsTerm(predicate, "image") -> ImageBranch(ad, result, rows)
         [] IsTerm(predicate, "thumbnail") -> ThumbnailBranch(ad, result, rows)
         [] IsTerm(predicate, "audio") -> AudioBranch(ad, result, rows)
         [] IsTerm(predicate, "video") -> VideoBranch(ad, result, rows)
         [] IsTerm(predicate, "editor") -> EditorBranch(ad, result, rows)
         [] OTHER -> [ad EXCEPT !["keywords"] = PyAppend(@, object_value)]

\* One iteration of the for loop: the try body, with any exception caught
\* and the row skipped.
ProcessResult(ad, result, rows) ==
    LET predicate == BindingValue(result, "p")
        object_value == BindingValue(result, "o")
    IN CASE TermOf(predicate) \in ScalarPredicates ->
              [ad EXCEPT ![TermOf(predicate)] = object_value]
         [] IsTerm(predicate, "wordCount") ->
              LET n == PyIntParse(object_value)
              IN IF n.ok THEN [ad EXCEPT !["wordCount"] = n.val] ELSE ad
         [] IsTerm(predicate, "keywords") ->
              [ad EXCEPT !["keywords"] = PyAppend(@, object_value)]
         [] IsTerm(predicate, "author") -> AuthorBranch(ad, result, rows)
         [] IsTerm(predicate, "publisher") -> PublisherBranch(ad, result, rows)
         [] IsTerm(predicate, "image") -> ImageBranch(ad, result, rows)
         [] IsTerm(predicate, "thumbnail") -> ThumbnailBranch(ad, result, rows)
         [] IsTerm(predicate, "audio") -> AudioBranch(ad, result, rows)
         [] IsTerm(predicate, "video") -> VideoBranch(ad, result, rows)
         [] IsTerm(predicate, "editor") -> EditorBranch(ad, result, rows)
         [] OTHER -> ad

RECURSIVE PopulateFrom(_, _, _)
PopulateFrom(ad, rows, i) ==
    IF i > Len(rows) THEN ad
    ELSE PopulateFrom(ProcessResult(ad, rows[i], PyList(rows)), rows, i + 1)

\* populate_article_data(results, url): the whole loop.
populate_article_data(rows, u) == PopulateFrom(InitialArticle(u), rows, 1)

(***************************************************************************)
(* Library functions used by the preference extractor.                     *)
(***************************************************************************)
\* sorted(q) ascending, for a sequence of integers
RECURSIVE InsertAsc(_, _)
InsertAsc(x, q) ==
    IF q = <<>> THEN <<x>>
    ELSE IF x < Head(q) THEN <<x>> \o q
    ELSE <<Head(q)>> \o InsertAsc(x, Tail(q))

RECURSIVE SortAsc(_)
SortAsc(q) == IF q = <<>> THEN <<>> ELSE InsertAsc(q[Len(q)], SortAsc(SubSeq(q, 1, Len(q) - 1)))

\* int(x) for the rational num/den, den > 0: truncation toward zero
TruncDiv(num, den) == IF num >= 0 THEN num \div den ELSE 0 - ((0 - num) \div den)

NpPercentileLower(q, pct) ==
    LET sorted == SortAsc(q)
        n == Len(sorted)
        virtual100 == pct * (n - 1)
        lo == virtual100 \div 100 + 1
    IN <<100 * sorted[lo], 100>>

\* np.percentile(q, pct), default (linear) method, as the rational
\* <<numerator, 100>>: the virtual index pct/100 * (n - 1) is split into
\* its integer part and its fraction, and the two neighbouring order
\* statistics are interpolated.
NpPercentile(q, pct) ==
    LET sorted == SortAsc(q)
        n == Len(sorted)
        virtual100 == pct * (n - 1)
        lo == virtual100 \div 100 + 1
        hi == IF lo < n THEN lo + 1 ELSE n
        gamma100 == virtual100 % 100
    IN <<100 * sorted[lo] + gamma100 * (sorted[hi] - sorted[lo]), 100>>

\* str.split(): the maximal runs of non-whitespace characters
IsSpace(c) == c \in {" ", "\t", "\n"}

RECURSIVE SplitFrom(_, _, _)
\* tokens of s from position i on, `cur` being the token under construction
SplitFrom(s, i, cur) ==
    IF i > Len(s) THEN (IF cur = "" THEN <<>> ELSE <<cur>>)
    ELSE LET c == SubSeq(s, i, i)
         IN IF IsSpace(c)
            THEN (IF cur = "" THEN <<>> ELSE <<cur>>) \o SplitFrom(s, i + 1, "")
            ELSE SplitFrom(s, i + 1, cur \o c)

PySplit(s) == SplitFrom(s, 1, "")

\* ' '.join(q), for a sequence of strings
RECURSIVE JoinSpace(_)
JoinSpace(q) ==
    IF q = <<>> THEN ""
    ELSE IF Len(q) = 1 THEN q[1]
    ELSE q[1] \o " " \o JoinSpace(Tail(q))

\* Counter(q): the distinct elements in order of first occurrence, each
\* with its number of occurrences (a dict keeps insertion order).
RECURSIVE CounterKeys(_, _)
CounterKeys(q, seen) ==
    IF q = <<>> THEN <<>>
    ELSE IF InSeq(Head(q), seen) THEN CounterKeys(Tail(q), seen)
    ELSE <<Head(q)>> \o CounterKeys(Tail(q), Append(seen, Head(q)))

Counter(q) == [i \in 1..Len(CounterKeys(q, <<>>)) |->
                  [key |-> CounterKeys(q, <<>>)[i], count |-> Count(CounterKeys(q, <<>>)[i], q)]]

RECURSIVE InsertByCountDescTiesLast(_, _)
InsertByCountDescTiesLast(x, q) ==
    IF q = <<>> THEN <<x>>
    ELSE IF x.count >= Head(q).count THEN <<x>> \o q
    ELSE <<Head(q)>> \o InsertByCountDescTiesLast(x, Tail(q))

\* Insertion of an item into a sequence sorted by descending count, after
\* every item of the same count (the sort is stable).
RECURSIVE InsertByCountDesc(_, _)
InsertByCountDesc(x, q) ==
    IF q = <<>> THEN <<x>>
    ELSE IF x.count > Head(q).count THEN <<x>> \o q
    ELSE <<Head(q)>> \o InsertByCountDesc(x, Tail(q))

RECURSIVE SortByCountDesc(_)
SortByCountDesc(q) ==
    IF q = <<>> THEN <<>>
    ELSE InsertByCountDesc(q[Len(q)], SortByCountDesc(SubSeq(q, 1, Len(q) - 1)))

\* Counter.most_common(n): heapq.nlargest(n, items, key=count), which is
\* sorted(items, key=count, reverse=True)[:n]
MostCommon(counter, n) ==
    LET ordered == SortByCountDesc(counter)
    IN SubSeq(ordered, 1, IF n < Len(ordered) THEN n ELSE Len(ordered))

(***************************************************************************)
(* datetime.fromisoformat, for the date and date-time forms                *)
(*   YYYY-MM-DD, YYYY-MM-DD?HH:MM:SS, YYYY-MM-DD?HH:MM:SS(+|-)HH:MM        *)
(* (any other string raises ValueError here; the fractional-second and     *)
(* short time forms the library also accepts are not among the literals    *)
(* the model draws).                                                       *)
(***************************************************************************)
\* s.replace('Z', '+00:00')
RECURSIVE ReplaceZ(_)
ReplaceZ(s) ==
    IF Len(s) = 0 THEN ""
    ELSE (IF SubSeq(s, 1, 1) = "Z" THEN "+00:00" ELSE SubSeq(s, 1, 1))
         \o ReplaceZ(SubSeq(s, 2, Len(s)))

\* the number written by characters a..b of s, -1 if one is not a digit
Digits(s, a, b) == DigitsValue(SubSeq(s, a, b), 0)

IsLeap(y) == (y % 4 = 0 /\ y % 100 /= 0) \/ y % 400 = 0
DaysInMonth(y, m) ==
    CASE m \in {1, 3, 5, 7, 8, 10, 12} -> 31
      [] m \in {4, 6, 9, 11} -> 30
      [] OTHER -> IF IsLeap(y) THEN 29 ELSE 28

\* days from 1970-01-01 to the civil date y-m-d
DaysFromCivil(y, m, d) ==
    LET yy == IF m <= 2 THEN y - 1 ELSE y
        era == yy \div 400
        yoe == yy - era * 400
        doy == (153 * (IF m > 2 THEN m - 3 ELSE m + 9) + 2) \div 5 + d - 1
        doe == yoe * 365 + yoe \div 4 - yoe \div 100 + doy
    IN era * 146097 + doe - 719468

\* A datetime: its wall-clock seconds since the epoch, and its UTC offset
\* when it is offset-aware.
PyDatetime(secs, aware, off) == [t |-> "datetime", secs |-> secs, aware |-> aware, off |-> off]

FromIsoFormat(s) ==
    LET n == Len(s)
        y == Digits(s, 1, 4)
        m == Digits(s, 6, 7)
        d == Digits(s, 9, 10)
        dateOk == /\ n >= 10
                  /\ SubSeq(s, 5, 5) = "-" /\ SubSeq(s, 8, 8) = "-"
                  /\ y >= 1 /\ m >= 1 /\ m <= 12 /\ d >= 1
                  /\ d <= DaysInMonth(y, m)
        hh == Digits(s, 12, 13)
        mi == Digits(s, 15, 16)
        ss == Digits(s, 18, 19)
        timeOk == /\ n >= 19
                  /\ SubSeq(s, 14, 14) = ":" /\ SubSeq(s, 17, 17) = ":"
                  /\ hh >= 0 /\ hh < 24 /\ mi >= 0 /\ mi < 60 /\ ss >= 0 /\ ss < 60
        oh == Digits(s, 21, 22)
        om == Digits(s, 24, 25)
        offOk == /\ n = 25
                 /\ SubSeq(s, 20, 20) \in {"+", "-"} /\ SubSeq(s, 23, 23) = ":"
                 /\ oh >= 0 /\ oh < 24 /\ om >= 0 /\ om < 60
        day == DaysFromCivil(y, m, d) * 86400
        clock == hh * 3600 + mi * 60 + ss
        off == (IF SubSeq(s, 20, 20) = "-" THEN -1 ELSE 1) * (oh * 3600 + om * 60)
    IN CASE n = 10 /\ dateOk -> Ok(PyDatetime(day, FALSE, 0))
         [] n = 19 /\ dateOk /\ timeOk -> Ok(PyDatetime(day + clock, FALSE, 0))
         [] n = 25 /\ dateOk /\ timeOk /\ offOk -> Ok(PyDatetime(day + clock, TRUE, off))
         [] OTHER -> Raised

\* a < b on datetimes: TypeError between an offset-naive and an
\* offset-aware value
DatetimeLess(a, b) ==
    IF a.aware /= b.aware THEN Raised
    ELSE Ok((a.secs - a.off) < (b.secs - b.off))

RECURSIVE MinDatetimeFrom(_, _, _)
\* min(q): the first minimal element, scanning from position i with the
\* current minimum `best`
MinDatetimeFrom(q, i, best) ==
    IF i > Len(q) THEN Ok(best)
    ELSE LET lt == DatetimeLess(q[i], best)
         IN IF ~lt.ok THEN Raised
            ELSE MinDatetimeFrom(q, i + 1, IF lt.val THEN q[i] ELSE best)

RECURSIVE MaxDatetimeFrom(_, _, _)
MaxDatetimeFrom(q, i, best) ==
    IF i > Len(q) THEN Ok(best)
    ELSE LET gt == DatetimeLess(best, q[i])
         IN IF ~gt.ok THEN Raised
            ELSE MaxDatetimeFrom(q, i + 1, IF gt.val THEN q[i] ELSE best)

PyMinDatetime(q) == MinDatetimeFrom(q, 2, q[1])
PyMaxDatetime(q) == MaxDatetimeFrom(q, 2, q[1])

(***************************************************************************)
(* _extract_user_preferences                                               *)
(***************************************************************************)
RECURSIVE FlatSeq(_)
\* the concatenation of a sequence of sequences
FlatSeq(qq) == IF qq = <<>> THEN <<>> ELSE Head(qq) \o FlatSeq(Tail(qq))

\* word_counts: the wordCount of every article whose wordCount is truthy
CollectWordCounts(viewed) ==
    LET HasCount(article) == Truthy(DictGet(article, "wordCount"))
        kept == SelectSeq(viewed, HasCount)
    IN [i \in 1..Len(kept) |-> DictGet(kept[i], "wordCount")]

\* dates_published: the parsed datePublished of every article whose
\* datePublished is truthy and parses (a ValueError is logged and skipped)
ParsedDate(article) ==
    LET value == DictGet(article, "datePublished")
    IN IF ~Truthy(value) THEN Raised
       ELSE IF value.t /= "str" THEN Raised
       ELSE FromIsoFormat(ReplaceZ(value.v))

CollectDates(viewed) ==
    LET Parses(article) == ParsedDate(article).ok
        kept == SelectSeq(viewed, Parses)
    IN [i \in 1..Len(kept) |-> ParsedDate(kept[i]).val]

\* keywords: a list is taken element by element, a string is split on
\* whitespace
ArticleKeywords(article) ==
    LET value == DictGet(article, "keywords")
    IN IF ~Truthy(value) THEN <<>>
       ELSE IF value.t = "list" THEN value.v
       ELSE IF value.t = "str" THEN [i \in 1..Len(PySplit(value.v)) |-> PyStr(PySplit(value.v)[i])]
       ELSE <<>>

CollectKeywords(viewed) == FlatSeq([i \in 1..Len(viewed) |-> ArticleKeywords(viewed[i])])

AgentNamesUnfiltered(value) ==
    IF ~Truthy(value) THEN Ok(<<>>)
    ELSE IF value.t = "list"
         THEN IF \E i \in 1..Len(value.v) : value.v[i].t /= "dict" THEN Raised
              ELSE Ok([i \in 1..Len(value.v) |-> DictGet(value.v[i], "name")])
    ELSE IF value.t = "dict" THEN Ok(<<DictGet(value, "name")>>)
    ELSE Ok(<<>>)

\* The names of the agents of one author or publisher field: every
\* element of a list, or the single dict, that has a truthy name.  An
\* element that is not a dict has no .get and raises AttributeError.
AgentNames(value) ==
    LET HasName(agent) == Truthy(DictGet(agent, "name"))
    IN IF ~Truthy(value) THEN Ok(<<>>)
       ELSE IF value.t = "list"
            THEN IF \E i \in 1..Len(value.v) : value.v[i].t /= "dict" THEN Raised
                 ELSE LET kept == SelectSeq(value.v, HasName)
                      IN Ok([i \in 1..Len(kept) |-> DictGet(kept[i], "name")])
       ELSE IF value.t = "dict"
            THEN Ok(IF HasName(value) THEN <<DictGet(value, "name")>> ELSE <<>>)
       ELSE Ok(<<>>)

CollectAgents(viewed, field) ==
    IF \E i \in 1..Len(viewed) : ~AgentNames(DictGet(viewed[i], field)).ok THEN Raised
    ELSE Ok(FlatSeq([i \in 1..Len(viewed) |-> AgentNames(DictGet(viewed[i], field)).val]))

\* int(np.percentile(word_counts, pct))
WordCountBound(word_counts, pct) ==
    LET values == [i \in 1..Len(word_counts) |-> word_counts[i].v]
        fraction == NpPercentile(values, pct)
    IN PyInt(TruncDiv(fraction[1], fraction[2]))

\* ' '.join([k for k, _ in Counter(keywords).most_common(10)])
TopKeywords == 10
KeywordString(keywords) ==
    LET top == MostCommon(Counter(keywords), TopKeywords)
    IN PyStr(JoinSpace([i \in 1..Len(top) |-> top[i].key.v]))

\* Mutant of MostFrequent: the last of the names with the highest count.
MostFrequentLastSeen(names) ==
    CHOOSE n \in {names[i] : i \in 1..Len(names)} :
        \A i \in 1..Len(names) :
            \/ Count(n, names) > Count(names[i], names)
            \/ /\ Count(n, names) = Count(names[i], names)
               /\ \E j \in i..Len(names) : names[j] = n

\* Counter(names).most_common(1)[0][0]
MostFrequent(names) == MostCommon(Counter(names), 1)[1].key

\* The preferences dict, or Raised when the function raises.
_extract_user_preferences(viewed) ==
    LET word_counts == CollectWordCounts(viewed)
        dates_published == CollectDates(viewed)
        keywords == CollectKeywords(viewed)
        authors == CollectAgents(viewed, "author")
        publishers == CollectAgents(viewed, "publisher")
        date_min == IF dates_published = <<>> THEN Ok(PyNone) ELSE PyMinDatetime(dates_published)
        date_max == IF dates_published = <<>> THEN Ok(PyNone) ELSE PyMaxDatetime(dates_published)
    IN IF \/ ~authors.ok \/ ~publishers.ok \/ ~date_min.ok \/ ~date_max.ok
          \/ \E i \in 1..Len(word_counts) : word_counts[i].t /= "int"
          \/ \E i \in 1..Len(keywords) : keywords[i].t /= "str"
       THEN Raised
       ELSE Ok([keywords |-> IF keywords = <<>> THEN PyList(<<>>) ELSE KeywordString(keywords),
                wordcount_min |-> IF word_counts = <<>> THEN PyNone
                                  ELSE WordCountBound(word_counts, 25),
                wordcount_max |-> IF word_counts = <<>> THEN PyNone
                                  ELSE WordCountBound(word_counts, 75),
                author_name |-> IF authors.val = <<>> THEN PyNone ELSE MostFrequent(authors.val),
                publisher |-> IF publishers.val = <<>> THEN PyNone
                              ELSE MostFrequent(publishers.val),
                datePublished_min |-> date_min.val,
                datePublished_max |-> date_max.val])

(***************************************************************************)
(* _calculate_metadata_similarity and _rank_articles.                      *)
(* Scores are fixed-point: similarity and metadata scores in tenths,       *)
(* final scores in hundredths (0.7 * s + 0.3 * m is 7 * s + 3 * m).        *)
(***************************************************************************)
AuthorMatch == 3
PublisherMatch == 3
WordCountMatch == 4
ContentWeight == 7
MetadataWeight == 3

RECURSIVE AnyNameEquals(_, _, _)
\* any(agent.get('name') == wanted for agent in agents), from element i:
\* the generator stops at the first match and raises at an element that is
\* not a dict
AnyNameEquals(agents, wanted, i) ==
    IF i > Len(agents) THEN Ok(FALSE)
    ELSE IF agents[i].t /= "dict" THEN Raised
    ELSE IF DictGet(agents[i], "name") = wanted THEN Ok(TRUE)
    ELSE AnyNameEquals(agents, wanted, i + 1)

\* Mutant of AgentMatches: a field that is a plain string is compared with
\* the preferred name too.
AgentMatchesString(value, wanted) ==
    IF ~(Truthy(value) /\ Truthy(wanted)) THEN Ok(FALSE)
    ELSE IF value.t = "list" THEN AnyNameEquals(value.v, wanted, 1)
    ELSE IF value.t = "dict" THEN Ok(DictGet(value, "name") = wanted)
    ELSE Ok(value = wanted)

\* The author (or publisher) component: whether some agent of the
\* article's field carries the preferred name.
AgentMatches(value, wanted) ==
    IF ~(Truthy(value) /\ Truthy(wanted)) THEN Ok(FALSE)
    ELSE IF value.t = "list" THEN AnyNameEquals(value.v, wanted, 1)
    ELSE IF value.t = "dict" THEN Ok(DictGet(value, "name") = wanted)
    ELSE Ok(FALSE)

\* The word-count component: all three values truthy and the count within
\* the bounds; comparing a non-number with a number raises TypeError.
WordCountMatches(count, lower, upper) ==
    IF ~(Truthy(count) /\ Truthy(lower) /\ Truthy(upper)) THEN Ok(FALSE)
    ELSE IF count.t /= "int" \/ lower.t /= "int" \/ upper.t /= "int" THEN Raised
    ELSE Ok(lower.v <= count.v /\ count.v <= upper.v)

\* The metadata score in tenths, or Raised.
_calculate_metadata_similarity(article, prefs) ==
    LET author == AgentMatches(DictGet(article, "author"), prefs.author_name)
        publisher == AgentMatches(DictGet(article, "publisher"), prefs.publisher)
        count == WordCountMatches(DictGet(article, "wordCount"),
                                  prefs.wordcount_min, prefs.wordcount_max)
    IN IF ~author.ok \/ ~publisher.ok \/ ~count.ok THEN Raised
       ELSE Ok((IF author.val THEN AuthorMatch ELSE 0)
               + (IF publisher.val THEN PublisherMatch ELSE 0)
               + (IF count.val THEN WordCountMatch ELSE 0))

\* The text surrogate of an article: headline, abstract and keywords,
\* joined with single spaces.
SurrogateParts(article) ==
    (IF Truthy(DictGet(article, "headline")) THEN <<DictGet(article, "headline")>> ELSE <<>>)
    \o (IF Truthy(DictGet(article, "abstract")) THEN <<DictGet(article, "abstract")>> ELSE <<>>)
    \o ArticleKeywords(article)

Surrogate(article) ==
    LET parts == SurrogateParts(article)
    IN JoinSpace([i \in 1..Len(parts) |-> parts[i].v])

\* The character n-grams run from length 3 to 5: a text shorter than 3
\* characters has none, and fit_transform raises ValueError (empty
\* vocabulary) when no text has any.
NgramMin == 3
HasNgrams(text) == Len(text) >= NgramMin

PyFloat(x) == [t |-> "float", v |-> x]

\* similarity_scores[idx]: the mean cosine similarity of candidate idx to
\* the viewed texts, in tenths.  A text without n-grams is the zero vector
\* and has similarity 0 to everything; otherwise the value is the
\* vectorizer's, given by `similarity` (text -> tenths).
SimilarityScore(viewed, candidate, sims) ==
    IF ~HasNgrams(Surrogate(candidate)) THEN 0
    ELSE IF \A i \in 1..Len(viewed) : ~HasNgrams(Surrogate(viewed[i])) THEN 0
    ELSE sims[DictGet(candidate, "headline")]

ScoredCopySwappedWeights(article, sim, meta) ==
    PyDict([k \in DOMAIN article.v \cup {"similarity_score", "final_score"} |->
               CASE k = "similarity_score" -> PyFloat(sim)
                 [] k = "final_score" -> PyFloat(MetadataWeight * sim + ContentWeight * meta)
                 [] OTHER -> article.v[k]])

\* article_copy with similarity_score and final_score set
ScoredCopy(article, sim, meta) ==
    PyDict([k \in DOMAIN article.v \cup {"similarity_score", "final_score"} |->
               CASE k = "similarity_score" -> PyFloat(sim)
                 [] k = "final_score" -> PyFloat(ContentWeight * sim + MetadataWeight * meta)
                 [] OTHER -> article.v[k]])

NotInHistoryHead(article, history) ==
    history = <<>> \/ DictGet(article, "url") /= PyStr(history[1])

\* article.get('url') not in user_history
NotInHistory(article, history) ==
    ~InSeq(DictGet(article, "url"), [i \in 1..Len(history) |-> PyStr(history[i])])

RECURSIVE ScoreFromSkipping(_, _, _, _, _, _)
\* Mutant of ScoreFrom: a candidate whose scoring raises is left out and
\* the others are scored.
ScoreFromSkipping(viewed, candidates, prefs, history, sims, idx) ==
    IF idx > Len(candidates) THEN Ok(<<>>)
    ELSE LET rest == ScoreFromSkipping(viewed, candidates, prefs, history, sims, idx + 1)
             meta == _calculate_metadata_similarity(candidates[idx], prefs)
         IN IF ~NotInHistory(candidates[idx], history) \/ ~meta.ok THEN rest
            ELSE Ok(<<ScoredCopy(candidates[idx],
                                 SimilarityScore(viewed, candidates[idx], sims),
                                 meta.val)>> \o rest.val)

RECURSIVE ScoreFrom(_, _, _, _, _, _)
\* the scoring loop from candidate idx on: the scored copies of the
\* candidates outside the history, or Raised
ScoreFrom(viewed, candidates, prefs, history, sims, idx) ==
    IF idx > Len(candidates) THEN Ok(<<>>)
    ELSE LET rest == ScoreFrom(viewed, candidates, prefs, history, sims, idx + 1)
             meta == _calculate_metadata_similarity(candidates[idx], prefs)
         IN IF ~NotInHistory(candidates[idx], history) THEN rest
            ELSE IF ~meta.ok \/ ~rest.ok THEN Raised
            ELSE Ok(<<ScoredCopy(candidates[idx],
                                 SimilarityScore(viewed, candidates[idx], sims),
                                 meta.val)>> \o rest.val)

\* x.get('final_score', 0)
SortKey(x) == IF "final_score" \in DOMAIN x.v THEN x.v["final_score"].v ELSE 0

RECURSIVE InsertByScoreDescUnstable(_, _)
InsertByScoreDescUnstable(x, q) ==
    IF q = <<>> THEN <<x>>
    ELSE IF SortKey(x) >= SortKey(Head(q)) THEN <<x>> \o q
    ELSE <<Head(q)>> \o InsertByScoreDescUnstable(x, Tail(q))

RECURSIVE InsertByScoreDesc(_, _)
\* insertion after every element whose key is not smaller: with the left
\* to right build below this is sorted(..., reverse=True), which is stable
InsertByScoreDesc(x, q) ==
    IF q = <<>> THEN <<x>>
    ELSE IF SortKey(x) > SortKey(Head(q)) THEN <<x>> \o q
    ELSE <<Head(q)>> \o InsertByScoreDesc(x, Tail(q))

RECURSIVE SortedByScoreDescDistinct(_)
\* Mutant of SortedByScoreDesc: a record whose url is already ranked is
\* dropped.
SortedByScoreDescDistinct(q) ==
    IF q = <<>> THEN <<>>
    ELSE LET rest == SortedByScoreDescDistinct(SubSeq(q, 1, Len(q) - 1))
         IN IF \E k \in 1..Len(rest) : DictGet(rest[k], "url") = DictGet(q[Len(q)], "url")
            THEN rest
            ELSE InsertByScoreDesc(q[Len(q)], rest)

RECURSIVE SortedByScoreDesc(_)
SortedByScoreDesc(q) ==
    IF q = <<>> THEN <<>>
    ELSE InsertByScoreDesc(q[Len(q)], SortedByScoreDesc(SubSeq(q, 1, Len(q) - 1)))

PySliceToInclusive(q, k) ==
    LET stop == IF k >= 0 THEN (IF k + 1 < Len(q) THEN k + 1 ELSE Len(q))
                ELSE (IF Len(q) + k > 0 THEN Len(q) + k ELSE 0)
    IN SubSeq(q, 1, stop)

\* q[:k] : the first k elements, or all but the last -k when k < 0
PySliceTo(q, k) ==
    LET stop == IF k >= 0 THEN (IF k < Len(q) THEN k ELSE Len(q))
                ELSE (IF Len(q) + k > 0 THEN Len(q) + k ELSE 0)
    IN SubSeq(q, 1, stop)

_rank_articles_unguarded(viewed, candidates, prefs, history, top_k, sims) ==
    IF candidates = <<>> THEN <<>>
    ELSE LET scored == ScoreFrom(viewed, candidates, prefs, history, sims, 1)
         IN IF ~scored.ok THEN <<>>
            ELSE PySliceTo(SortedByScoreDesc(scored.val), top_k)

\* The list _rank_articles returns.  The surrogates are built outside the
\* try block; everything from fit_transform on is inside it, and any
\* exception there gives [].
_rank_articles(viewed, candidates, prefs, history, top_k, sims) ==
    IF candidates = <<>> THEN <<>>
    ELSE IF \A i \in 1..Len(viewed) + Len(candidates) :
                ~HasNgrams(Surrogate((viewed \o candidates)[i]))
         THEN <<>>
    ELSE LET scored == ScoreFrom(viewed, candidates, prefs, history, sims, 1)
         IN IF ~scored.ok THEN <<>>
            ELSE PySliceTo(SortedByScoreDesc(scored.val), top_k)

(***************************************************************************)
(* Materialization of one url: the rows are drawn from a small universe    *)
(* and the loop of populate_article_data runs one row per step.            *)
(***************************************************************************)
MaxTuples == 3

\* Rows whose order can matter: two values for one scalar, two keywords,
\* two agents, two values for one field of an agent, two thumbnails.
MatRows ==
    {Row("headline", "h1"), Row("headline", "h2"),
     Row("keywords", "ai"), Row("keywords", "robot"),
     SubRow("author", "o1", "@type", "Person"),
     SubRow("author", "o1", "name", "Ann"),
     SubRow("author", "o1", "name", "Bob"),
     SubRow("author", "o2", "@type", "Organization"),
     SubRow("thumbnail", "i1", "url", "pic1"),
     SubRow("thumbnail", "i2", "height", "07")}

\* Rows of every Agent and Media collection, with objects of a recognised
\* type, of an unrecognised one, and with a malformed number.
EntityRows ==
    {Row("headline", "h1"),
     SubRow("author", "o1", "@type", "Person"),
     SubRow("author", "o1", "name", "Ann"),
     SubRow("author", "o2", "@type", "Organization"),
     SubRow("author", "o3", "@type", "Thing"),
     SubRow("publisher", "o2", "@type", "Organization"),
     SubRow("publisher", "o3", "@type", "Thing"),
     SubRow("image", "i1", "url", "pic1"),
     SubRow("image", "i2", "height", "07"),
     SubRow("image", "i3", "height", "x"),
     SubRow("audio", "a1", "caption", "c1"),
     SubRow("video", "v1", "caption", "c1"),
     SubRow("editor", "o1", "@type", "Person")}

SeqsUpTo(set, n) == UNION {[1..k -> set] : k \in 0..n}

\* The variables of get_recommendations, while no call of it is running.
RecoIdle ==
    /\ user_history = <<>>
    /\ hidx = 0
    /\ fetched = <<>>
    /\ viewed_articles = <<>>
    /\ preferences = PyNone
    /\ searches = <<>>
    /\ candidate_articles = <<>>
    /\ similarity = <<>>
    /\ max_recommendations = 0
    /\ recommendations = <<>>

MatInit ==
    /\ RecoIdle
    /\ pc = "populate"
    /\ results \in SeqsUpTo(MatRows, MaxTuples)
    /\ url = "u1"
    /\ article_data = InitialArticle(url)
    /\ ridx = 1

\* for result in results: ... (one iteration)
ProcessTuple ==
    /\ pc = "populate"
    /\ ridx <= Len(results)
    /\ article_data' = ProcessResult(article_data, results[ridx], PyList(results))
    /\ ridx' = ridx + 1
    /\ UNCHANGED <<pc, results, url, recoVars>>

\* return article_data
ReturnArticle ==
    /\ pc = "populate"
    /\ ridx > Len(results)
    /\ pc' = "materialized"
    /\ UNCHANGED <<matVars, recoVars>>

MatNext == ProcessTuple \/ ReturnArticle

SpecMaterialize == MatInit /\ [][MatNext]_vars

DedupInit ==
    /\ RecoIdle
    /\ pc = "populate"
    /\ results \in SeqsUpTo(EntityRows, MaxTuples)
    /\ url = "u1"
    /\ article_data = InitialArticle(url)
    /\ ridx = 1

SpecDedup == DedupInit /\ [][MatNext]_vars

MatSanity == pc = "materialized" => article_data = populate_article_data(results, url)

(***************************************************************************)
(* Materialization: permutation of the input (C7) and de-duplication (C8)  *)
(***************************************************************************)
Perms(n) == {f \in [1..n -> 1..n] : \A i, j \in 1..n : f[i] = f[j] => i = j}
Permute(rows, f) == [i \in 1..Len(rows) |-> rows[f[i]]]

SameBag(q1, q2) ==
    /\ Len(q1) = Len(q2)
    /\ \A i \in 1..Len(q1) : Count(q1[i], q1) = Count(q1[i], q2)

ListFields == {"author", "publisher", "image", "keywords", "audio", "video"}

\* Predicates whose field holds one value: the last row written wins.
SingleValuedPredicates == ScalarPredicates \cup {"wordCount", "thumbnail"}

\* No single-valued slot receives two distinct values: neither a scalar
\* field of the article (nor its thumbnail) nor a sub-predicate of one object.
SingleValued(rows) ==
    \A i, j \in 1..Len(rows) :
        /\ (/\ TermOf(BindingValue(rows[i], "p")) \in SingleValuedPredicates
            /\ BindingValue(rows[i], "p") = BindingValue(rows[j], "p"))
           => BindingValue(rows[i], "o") = BindingValue(rows[j], "o")
        /\ (/\ BindingValue(rows[i], "o") = BindingValue(rows[j], "o")
            /\ BindingValue(rows[i], "subP") = BindingValue(rows[j], "subP"))
           => BindingValue(rows[i], "subO") = BindingValue(rows[j], "subO")

\* Two records agree but for the order of their list-valued fields.
EqualUpToListOrder(a, b) ==
    \A k \in DOMAIN a :
        IF k \in ListFields THEN SameBag(a[k].v, b[k].v) ELSE a[k] = b[k]

\* Two records agree in every field, keywords compared as a multiset.
EqualButKeywordOrder(a, b) ==
    \A k \in DOMAIN a :
        IF k = "keywords" THEN SameBag(a[k].v, b[k].v) ELSE a[k] = b[k]

\* C7 (as stated): any two orderings of the rows give records equal in
\* every field, except possibly for the order of keywords.
C7_PermutationInvariantAllFields ==
    pc = "materialized" =>
        \A f \in Perms(Len(results)) :
            EqualButKeywordOrder(populate_article_data(Permute(results, f), url), article_data)

\* C7 (amended): any two orderings of the rows give the same keyword
\* multiset; when no single-valued slot receives two distinct values they
\* give records equal in every scalar field, thumbnail and editor, with
\* the same members in author, publisher, image, audio and video, whose
\* order follows the rows.
C7_PermutationInvariantSingleValued ==
    pc = "materialized" =>
        \A f \in Perms(Len(results)) :
            LET other == populate_article_data(Permute(results, f), url)
            IN /\ SameBag(other["keywords"].v, article_data["keywords"].v)
               /\ SingleValued(results) => EqualUpToListOrder(other, article_data)

\* Two distinct agents were materialized from single-valued rows, and some
\* other ordering of the rows lists them in the other order.
C7_Witness ==
    /\ pc = "materialized"
    /\ SingleValued(results)
    /\ Len(article_data["author"].v) = 2
    /\ \E f \in Perms(Len(results)) :
           populate_article_data(Permute(results, f), url)["author"] /= article_data["author"]

NoDuplicates(q) == \A i, j \in 1..Len(q) : q[i] = q[j] => i = j

\* The entity the branch of a collection predicate builds for a row (the
\* outcome of the builder call as the branch makes it), if the row goes
\* that far.
BuiltEntity(result, rows) ==
    LET predicate == BindingValue(result, "p")
        typed == IsTerm(BindingValue(result, "subP"), "@type")
        agent == IF BindingValue(result, "subO") = PyStr("Person")
                 THEN populate_person(result, rows)
                 ELSE IF BindingValue(result, "subO") = PyStr("Organization")
                      THEN populate_organization(result, rows)
                      ELSE Ok(EmptyDict)
    IN CASE TermOf(predicate) \in {"author", "publisher"} ->
                IF typed THEN agent ELSE Raised
         [] IsTerm(predicate, "image") -> populate_image_data(result, rows)
         [] IsTerm(predicate, "audio") -> populate_audio_data(rows, result)
         [] IsTerm(predicate, "video") -> populate_video_data(rows, result)
         [] IsTerm(predicate, "editor") -> populate_person(result, rows)
         [] OTHER -> Raised

CollectionOf(result) ==
    LET predicate == BindingValue(result, "p")
    IN IF TermOf(predicate) \in (ListFields \ {"keywords"}) \cup {"editor"}
       THEN TermOf(predicate)
       ELSE ""

NoDuplicateEntities ==
    /\ \A k \in ListFields \ {"keywords"} : NoDuplicates(article_data[k].v)
    /\ article_data["editor"].t = "list" => NoDuplicates(article_data["editor"].v)

\* A row whose built entity is already in its collection leaves the
\* collection's length unchanged.
ReAddKeepsLength ==
    (pc = "populate" /\ ridx <= Len(results)) =>
        LET k == CollectionOf(results[ridx])
            built == BuiltEntity(results[ridx], PyList(results))
        IN (k /= "" /\ built.ok /\ InSeq(built.val, article_data[k].v))
               => Len(article_data'[k].v) = Len(article_data[k].v)

\* C8: no Agent collection (author, editor, publisher) and no Media
\* collection (image, audio, video) of the record ever holds two
\* structurally equal entities, and processing a row whose built entity is
\* already present leaves the collection's length unchanged.
C8_IdempotentDedup == [](NoDuplicateEntities) /\ [][ReAddKeepsLength]_vars

\* The same author row was processed twice and the collection holds the
\* entity once.
C8_Witness ==
    /\ pc = "populate"
    /\ ridx = 3
    /\ results[1] = results[2]
    /\ results[1] = SubRow("author", "o1", "@type", "Person")
    /\ Len(article_data["author"].v) = 1

(***************************************************************************)
(* get_recommendations: the history loop, preference extraction, the two   *)
(* candidate searches with their exact and partial queries, and ranking.   *)
(* The triple store and the search endpoint are the environment: what they *)
(* answer is drawn at each request.                                        *)
(***************************************************************************)
MaxHistory == 2
DefaultMaxRecommendations == 10

HistoryUrls == {"u1", "u2"}

\* What the triple query of get_article_by_url can come back with: binding
\* rows, a RequestException inside execute_sparql_query (which then returns
\* []), a payload whose bindings cannot be iterated (populate_article_data
\* raises and {} is kept), or any other exception (None is returned).
StoredRows ==
    <<Row("headline", "AI breakthrough"), Row("keywords", "ai"), Row("wordCount", "500"),
      SubRow("author", "o1", "@type", "Person"), SubRow("author", "o1", "name", "Ann")>>

TripleAnswers ==
    {[kind |-> "bindings", rows |-> <<>>],
     [kind |-> "bindings", rows |-> StoredRows],
     [kind |-> "request_error"],
     [kind |-> "bad_bindings"],
     [kind |-> "other_error"]}

\* execute_sparql_query(query)
execute_sparql_query(answer) ==
    CASE answer.kind = "bindings" -> Ok(PyList(answer.rows))
      [] answer.kind = "request_error" -> Ok(PyList(<<>>))
      [] answer.kind = "bad_bindings" -> Ok(PyNone)
      [] OTHER -> Raised

\* get_article_by_url(url)
get_article_by_url(u, answer) ==
    LET rows == execute_sparql_query(answer)
    IN IF ~rows.ok THEN PyNone
       ELSE IF rows.val.t /= "list" THEN EmptyDict
       ELSE PyDict(populate_article_data(rows.val.v, u))

\* What the search endpoint can come back with: a transport failure of
\* requests.post, a status other than 200, or status 200 with bindings.
FoundRows ==
    <<PyDict([article |-> PyStr("u3"), headline |-> PyStr("AI research"),
              author |-> PyStr("Ann"), publisher |-> PyStr("ACME")]),
      PyDict([article |-> PyStr("u1"), headline |-> PyStr("AI breakthrough")]),
      PyDict([article |-> PyStr("u4"), headline |-> PyStr("cooking pasta"),
              abstract |-> PyStr("recipes")])>>

SearchAnswers ==
    {[kind |-> "transport_error"],
     [kind |-> "status", code |-> 500],
     [kind |-> "bindings", rows |-> <<>>],
     [kind |-> "bindings", rows |-> FoundRows]}

SearchBindingKeys ==
    {"headline", "article", "abstract", "author", "datePublished", "thumbnailUrl", "publisher"}

\* the article dict built from one binding
SearchArticle(result) ==
    LET ArticleKey(k) == IF k = "article" THEN "url" ELSE k
        present == {k \in SearchBindingKeys : k \in DOMAIN result.v}
    IN PyDict([f \in {ArticleKey(k) : k \in present} |->
                  result.v[IF f = "url" THEN "article" ELSE f]])

\* execute_search_sparql_query(query): requests.post is not guarded
execute_search_sparql_query(answer) ==
    CASE answer.kind = "transport_error" -> Raised
      [] answer.kind = "status" -> Ok(<<>>)
      [] OTHER -> Ok([i \in 1..Len(answer.rows) |-> SearchArticle(answer.rows[i])])

\* result.get(k, '')
GetOrEmpty(result, k) == IF k \in DOMAIN result.v THEN result.v[k] ELSE PyStr("")

\* processed_result of search_advanced_exact_match / _partial_match
ProcessedResult(result, keywords_list) ==
    PyDict([k \in {"url", "headline", "abstract", "author", "datePublished",
                   "thumbnailUrl", "keywords"} |->
               IF k = "keywords" THEN keywords_list ELSE GetOrEmpty(result, k)])

\* keywords_list of the search functions
KeywordsList(keywords) ==
    IF Truthy(keywords) THEN LET words == PySplit(keywords.v)
                             IN PyList([i \in 1..Len(words) |-> PyStr(words[i])])
    ELSE PyList(<<>>)

\* search_advanced_exact_match and search_advanced_partial_match differ in
\* the query text only; what they return from the endpoint's answer:
SearchAdvanced(args, answer) ==
    LET raw == execute_search_sparql_query(answer)
    IN IF ~raw.ok THEN Raised
       ELSE Ok([i \in 1..Len(raw.val) |->
                   ProcessedResult(raw.val[i], KeywordsList(args.keywords))])

\* The similarity the vectorizer gives each headline against the viewed
\* texts, in tenths.
Headlines ==
    {PyStr("AI research"), PyStr("cooking pasta"), PyStr("AI breakthrough"), PyStr(""),
     PyNone}
SimilarityLevels == {0, 3, 10}
Similarities ==
    {f \in [Headlines -> SimilarityLevels] :
        f[PyStr("AI breakthrough")] = f[PyStr("AI research")] /\ f[PyStr("")] = 0
        /\ f[PyNone] = 0}

MatIdle ==
    /\ results = <<>>
    /\ url = ""
    /\ article_data = <<>>
    /\ ridx = 0

RecoInit ==
    /\ MatIdle
    /\ pc = "materialize"
    /\ user_history \in SeqsUpTo(HistoryUrls, MaxHistory)
    /\ hidx = 1
    /\ fetched = <<>>
    /\ viewed_articles = <<>>
    /\ preferences = PyNone
    /\ searches = <<>>
    /\ candidate_articles = <<>>
    /\ similarity \in {f \in Similarities : f[PyStr("AI research")] = 10}
    /\ max_recommendations \in {1, DefaultMaxRecommendations}
    /\ recommendations = <<>>

\* for url in user_history: results = self.get_article_by_url(url);
\* if results: viewed_articles.append(results)
MaterializeUrl ==
    /\ pc = "materialize"
    /\ hidx <= Len(user_history)
    /\ \E answer \in TripleAnswers :
          LET article == get_article_by_url(user_history[hidx], answer)
          IN /\ fetched' = Append(fetched, answer)
             /\ viewed_articles' = IF Truthy(article) THEN Append(viewed_articles, article)
                                   ELSE viewed_articles
    /\ hidx' = hidx + 1
    /\ UNCHANGED <<pc, matVars, user_history, preferences, searches, candidate_articles,
                   similarity, max_recommendations, recommendations>>

\* if not viewed_articles: return []
CheckViewed ==
    /\ pc = "materialize"
    /\ hidx > Len(user_history)
    /\ pc' = IF viewed_articles = <<>> THEN "done" ELSE "extract"
    /\ UNCHANGED <<matVars, recoVars>>

\* preferences = self._extract_user_preferences(viewed_articles)
ExtractPreferences ==
    /\ pc = "extract"
    /\ LET extracted == _extract_user_preferences(viewed_articles)
       IN IF extracted.ok
          THEN preferences' = extracted.val /\ pc' = "search"
          ELSE preferences' = preferences /\ pc' = "raised"
    /\ UNCHANGED <<matVars, user_history, hidx, fetched, viewed_articles, searches,
                   candidate_articles, similarity, max_recommendations, recommendations>>

\* One invocation of advanced_search: its arguments, the queries it has
\* run, and what it returned.
Invocation(args) ==
    [args |-> args, queries |-> <<>>, status |-> "running", articles |-> <<>>,
     match_type |-> ""]

SearchArgs(prefs, author_name, publisher) ==
    [keywords |-> prefs.keywords,
     wordcount_min |-> prefs.wordcount_min,
     wordcount_max |-> prefs.wordcount_max,
     author_name |-> author_name,
     publisher |-> publisher,
     datePublished_min |-> prefs.datePublished_min,
     datePublished_max |-> prefs.datePublished_max,
     inLanguage |-> PyNone]

\* _get_candidate_articles: the first call of advanced_search
StrictSearch ==
    /\ pc = "search"
    /\ searches' = <<Invocation(SearchArgs(preferences, preferences.author_name,
                                           preferences.publisher))>>
    /\ pc' = "exact"
    /\ UNCHANGED <<matVars, user_history, hidx, fetched, viewed_articles, preferences,
                   candidate_articles, similarity, max_recommendations, recommendations>>

\* The running invocation with one more query, what the endpoint answered
\* it and how many articles the query function made of the answer, logged.
Queried(kind, answer) ==
    [searches[Len(searches)] EXCEPT
        !.queries = Append(@, [query |-> kind, answer |-> answer.kind,
                               found |-> IF answer.kind = "bindings" THEN Len(answer.rows)
                                         ELSE 0])]

AdvancedSearchReturnsAndRetries(queried, articles, match_type) ==
    /\ searches' = [searches EXCEPT ![Len(searches)] =
                       [queried EXCEPT !.status = "returned",
                                       !.articles = articles,
                                       !.match_type = match_type]]
    /\ IF Len(searches) = 1
       THEN pc' = "relax" /\ candidate_articles' = candidate_articles
       ELSE pc' = "rank" /\ candidate_articles' = articles

\* Mutant of AdvancedSearchReturns: an empty first result sends the run
\* back to preference extraction.
AdvancedSearchReturnsToExtraction(queried, articles, match_type) ==
    /\ searches' = [searches EXCEPT ![Len(searches)] =
                       [queried EXCEPT !.status = "returned",
                                       !.articles = articles,
                                       !.match_type = match_type]]
    /\ IF Len(searches) = 1 /\ articles = <<>>
       THEN pc' = "extract" /\ candidate_articles' = candidate_articles
       ELSE pc' = "rank" /\ candidate_articles' = articles

\* advanced_search returns (articles, match_type) to _get_candidate_articles:
\* "if not articles" after the first call goes on to the relaxed call,
\* anything else is returned to get_recommendations.
AdvancedSearchReturns(queried, articles, match_type) ==
    /\ searches' = [searches EXCEPT ![Len(searches)] =
                       [queried EXCEPT !.status = "returned",
                                       !.articles = articles,
                                       !.match_type = match_type]]
    /\ IF Len(searches) = 1 /\ articles = <<>>
       THEN pc' = "relax" /\ candidate_articles' = candidate_articles
       ELSE pc' = "rank" /\ candidate_articles' = articles

\* the exception of requests.post leaves advanced_search,
\* _get_candidate_articles and get_recommendations
SearchRaises(queried) ==
    /\ searches' = [searches EXCEPT ![Len(searches)] = [queried EXCEPT !.status = "raised"]]
    /\ pc' = "raised"
    /\ candidate_articles' = candidate_articles

\* Mutant of ExactQuery: the partial query is run whatever the exact query
\* found.
ExactQueryThenPartial ==
    /\ pc = "exact"
    /\ \E answer \in SearchAnswers :
          LET exact_matches == SearchAdvanced(searches[Len(searches)].args, answer)
              queried == Queried("exact", answer)
          IN IF ~exact_matches.ok THEN SearchRaises(queried)
             ELSE /\ searches' = [searches EXCEPT ![Len(searches)] = queried]
                  /\ pc' = "partial"
                  /\ candidate_articles' = candidate_articles
    /\ UNCHANGED <<matVars, user_history, hidx, fetched, viewed_articles, preferences,
                   similarity, max_recommendations, recommendations>>

\* exact_matches = self.search_advanced_exact_match(...);
\* if exact_matches: return exact_matches, "Exact matches"
ExactQuery ==
    /\ pc = "exact"
    /\ \E answer \in SearchAnswers :
          LET exact_matches == SearchAdvanced(searches[Len(searches)].args, answer)
              queried == Queried("exact", answer)
          IN IF ~exact_matches.ok THEN SearchRaises(queried)
             ELSE IF exact_matches.val /= <<>>
                  THEN AdvancedSearchReturns(queried, exact_matches.val, "Exact matches")
             ELSE /\ searches' = [searches EXCEPT ![Len(searches)] = queried]
                  /\ pc' = "partial"
                  /\ candidate_articles' = candidate_articles
    /\ UNCHANGED <<matVars, user_history, hidx, fetched, viewed_articles, preferences,
                   similarity, max_recommendations, recommendations>>

\* partial_matches = self.search_advanced_partial_match(...);
\* return partial_matches, "Partial matches"
PartialQuery ==
    /\ pc = "partial"
    /\ \E answer \in SearchAnswers :
          LET partial_matches == SearchAdvanced(searches[Len(searches)].args, answer)
              queried == Queried("partial", answer)
          IN IF ~partial_matches.ok THEN SearchRaises(queried)
             ELSE AdvancedSearchReturns(queried, partial_matches.val, "Partial matches")
    /\ UNCHANGED <<matVars, user_history, hidx, fetched, viewed_articles, preferences,
                   similarity, max_recommendations, recommendations>>

\* Mutant of RelaxedSearch: the constraints are cleared in the preferences
\* themselves, not in a copy.
RelaxedSearchInPlace ==
    /\ pc = "relax"
    /\ searches' = Append(searches, Invocation(SearchArgs(preferences, PyNone, PyNone)))
    /\ preferences' = [preferences EXCEPT !.author_name = PyNone, !.publisher = PyNone]
    /\ pc' = "exact"
    /\ UNCHANGED <<matVars, user_history, hidx, fetched, viewed_articles,
                   candidate_articles, similarity, max_recommendations, recommendations>>

\* _get_candidate_articles: the second call of advanced_search, which
\* passes neither author_name nor publisher (both default to None)
RelaxedSearch ==
    /\ pc = "relax"
    /\ searches' = Append(searches, Invocation(SearchArgs(preferences, PyNone, PyNone)))
    /\ pc' = "exact"
    /\ UNCHANGED <<matVars, user_history, hidx, fetched, viewed_articles, preferences,
                   candidate_articles, similarity, max_recommendations, recommendations>>

\* final_recommendations = self._rank_articles(...); return final_recommendations
RankArticles ==
    /\ pc = "rank"
    /\ recommendations' = _rank_articles(viewed_articles, candidate_articles, preferences,
                                         user_history, max_recommendations, similarity)
    /\ pc' = "done"
    /\ UNCHANGED <<matVars, user_history, hidx, fetched, viewed_articles, preferences,
                   searches, candidate_articles, similarity, max_recommendations>>

RecoNext ==
    \/ MaterializeUrl
    \/ CheckViewed
    \/ ExtractPreferences
    \/ StrictSearch
    \/ ExactQuery
    \/ PartialQuery
    \/ RelaxedSearch
    \/ RankArticles

SpecRecommend == RecoInit /\ [][RecoNext]_vars

(***************************************************************************)
(* _extract_user_preferences on its own: the viewed articles are drawn     *)
(* from records with word counts, keywords as lists and as one string,     *)
(* agents as a list and as one object, and dates with and without offset.  *)
(***************************************************************************)
MaxViewed == 4

Words(q) == PyList([i \in 1..Len(q) |-> PyStr(q[i])])
Agent(name) == PyDict([name |-> PyStr(name)])

\* A materialized record with some of its fields set.
ArticleWith(u, fields) ==
    PyDict([k \in DOMAIN InitialArticle(u) |->
               IF k \in DOMAIN fields THEN fields[k] ELSE InitialArticle(u)[k]])

PrefArticles ==
    {ArticleWith("u1", [wordCount |-> PyInt(100),
                        keywords |-> Words(<<"k1", "k2", "k3", "k4", "k5", "k6">>),
                        author |-> PyList(<<Agent("Ann"), Agent("Bob")>>)]),
     ArticleWith("u2", [wordCount |-> PyInt(200),
                        keywords |-> Words(<<"k7", "k8", "k9", "k10", "k11", "k12">>),
                        author |-> Agent("Bob"), publisher |-> Agent("ACME")]),
     ArticleWith("u3", [wordCount |-> PyInt(300),
                        keywords |-> Words(<<"k12", "k11", "k1">>)]),
     ArticleWith("u4", [wordCount |-> PyInt(400), keywords |-> PyStr("ai Robot ai")]),
     ArticleWith("u5", [wordCount |-> PyInt(150), keywords |-> Words(<<"ai", "robot">>),
                        datePublished |-> PyStr("2024-01-01T00:00:00Z")]),
     ArticleWith("u6", [wordCount |-> PyInt(0), keywords |-> PyStr(" "),
                        datePublished |-> PyStr("2024-02-01T00:00:00")]),
     ArticleWith("u7", [datePublished |-> PyStr("yesterday"),
                        author |-> PyList(<<PyDict([name |-> PyStr("")])>>),
                        publisher |-> PyDict([name |-> PyNone])]),
     ArticleWith("u8", [author |-> PyList(<<PyStr("Ann")>>)])}

PrefsInit ==
    /\ MatIdle
    /\ pc = "extract"
    /\ viewed_articles \in SeqsUpTo(PrefArticles, MaxViewed)
    /\ user_history = <<>>
    /\ hidx = 0
    /\ fetched = <<>>
    /\ preferences = PyNone
    /\ searches = <<>>
    /\ candidate_articles = <<>>
    /\ similarity = <<>>
    /\ max_recommendations = 0
    /\ recommendations = <<>>

SpecPrefs == PrefsInit /\ [][ExtractPreferences]_vars

(***************************************************************************)
(* _rank_articles on its own: the candidates are drawn from records inside *)
(* and outside the history, with every shape of author the scorer can      *)
(* meet, with equal and different scores, and with and without text.       *)
(***************************************************************************)
MaxCandidates == 3
MaxTopK == 2

RankCandidates ==
    {PyDict([url |-> PyStr("u1"), headline |-> PyStr("AI research"),
             author |-> PyList(<<Agent("Ann")>>), publisher |-> Agent("ACME"),
             wordCount |-> PyInt(150)]),
     PyDict([url |-> PyStr("u3"), headline |-> PyStr("AI research"),
             author |-> PyStr("Ann")]),
     PyDict([url |-> PyStr("u4"), headline |-> PyStr("cooking pasta"),
             author |-> PyList(<<Agent("Bob"), Agent("Ann")>>),
             publisher |-> Agent("ACME"), wordCount |-> PyInt(150)]),
     PyDict([url |-> PyStr("u5"), headline |-> PyStr("AI research"),
             author |-> PyStr("")]),
     PyDict([url |-> PyStr("u6"), headline |-> PyStr("AI research"),
             author |-> PyList(<<PyStr("Ann")>>)]),
     PyDict([url |-> PyStr("u7")])}

RankViewed ==
    {<<ArticleWith("u1", [headline |-> PyStr("AI breakthrough"),
                          keywords |-> Words(<<"ai">>)])>>,
     <<ArticleWith("u1", <<>>)>>}

RankHistories == {<<"u1">>, <<"u1", "u3">>}

\* The similarities the vectorizer can give against these viewed texts:
\* viewed texts without n-grams are zero vectors, whose cosine similarity
\* to every text is 0.
ViewedSimilarities(viewed) ==
    IF \A i \in 1..Len(viewed) : ~HasNgrams(Surrogate(viewed[i]))
    THEN {f \in Similarities : \A h \in DOMAIN f : f[h] = 0}
    ELSE Similarities

RankProfile ==
    [keywords |-> PyStr("ai"),
     wordcount_min |-> PyInt(100),
     wordcount_max |-> PyInt(200),
     author_name |-> PyStr("Ann"),
     publisher |-> PyStr("ACME"),
     datePublished_min |-> PyNone,
     datePublished_max |-> PyNone]

RankInit ==
    /\ MatIdle
    /\ pc = "rank"
    /\ viewed_articles \in RankViewed
    /\ candidate_articles \in SeqsUpTo(RankCandidates, MaxCandidates)
    /\ preferences = RankProfile
    /\ user_history \in RankHistories
    /\ max_recommendations \in (-1)..MaxTopK
    /\ similarity \in ViewedSimilarities(viewed_articles)
    /\ hidx = 0
    /\ fetched = <<>>
    /\ searches = <<>>
    /\ recommendations = <<>>

SpecRank == RankInit /\ [][RankArticles]_vars

(***************************************************************************)
(* Claims about _rank_articles (SpecRank).                                 *)
(***************************************************************************)
Returned == pc = "done"

RecommendedUrl(i) == DictGet(recommendations[i], "url")
FinalScore(i) == recommendations[i].v["final_score"].v

InHistory(u) == \E h \in 1..Len(user_history) : u = PyStr(user_history[h])

\* The candidates whose url is not in the history, in input order.
NonExcluded ==
    LET Keep(c) == ~InHistory(DictGet(c, "url"))
    IN SelectSeq(candidate_articles, Keep)

\* C1 (History exclusion): no record returned by _rank_articles has a url
\* that is a member of the history list, whatever its score.
C1_HistoryExclusion ==
    Returned => \A i \in 1..Len(recommendations) : ~InHistory(RecommendedUrl(i))

\* A candidate of the history that would have scored above a returned one
\* was left out.
C1_Witness ==
    /\ Returned
    /\ recommendations /= <<>>
    /\ \E c \in 1..Len(candidate_articles) :
          /\ InHistory(DictGet(candidate_articles[c], "url"))
          /\ _calculate_metadata_similarity(candidate_articles[c], preferences).ok
          /\ ContentWeight * SimilarityScore(viewed_articles, candidate_articles[c], similarity)
             + MetadataWeight
               * _calculate_metadata_similarity(candidate_articles[c], preferences).val
             > FinalScore(1)

\* r is c with similarity_score and final_score added
IsScoredCopyOf(r, c) ==
    /\ DOMAIN r.v = DOMAIN c.v \cup {"similarity_score", "final_score"}
    /\ \A k \in DOMAIN c.v : r.v[k] = c.v[k]

\* C2 (Ordering): the output of _rank_articles consists of scored copies of
\* non-excluded candidates, is non-increasing in final_score, and any two
\* returned candidates with equal final_score appear in the same relative
\* order as in the candidate input list.
C2_StableDescendingOrder ==
    Returned =>
        \E f \in [1..Len(recommendations) -> 1..Len(candidate_articles)] :
            /\ \A i \in DOMAIN f :
                  /\ IsScoredCopyOf(recommendations[i], candidate_articles[f[i]])
                  /\ ~InHistory(DictGet(candidate_articles[f[i]], "url"))
            /\ \A i, j \in DOMAIN f :
                  i < j => /\ f[i] /= f[j]
                           /\ FinalScore(i) >= FinalScore(j)
                           /\ (FinalScore(i) = FinalScore(j) => f[i] < f[j])

\* Two different candidates with equal scores were returned, moved ahead of
\* a lower-scored candidate that came first in the input.
C2_Witness ==
    /\ Returned
    /\ Len(recommendations) = 2
    /\ FinalScore(1) = FinalScore(2)
    /\ RecommendedUrl(1) /= RecommendedUrl(2)
    /\ Len(NonExcluded) = 3
    /\ ~InHistory(DictGet(candidate_articles[1], "url"))
    /\ DictGet(candidate_articles[1], "url") \notin {RecommendedUrl(1), RecommendedUrl(2)}

\* The ranking of all the candidates, with no limit.
FullRanking ==
    _rank_articles(viewed_articles, candidate_articles, preferences, user_history,
                   Len(candidate_articles), similarity)

\* Ranking gave [] because of an exception inside its try block.
FailedSoft == NonExcluded /= <<>> /\ FullRanking = <<>>

Min(a, b) == IF a < b THEN a ELSE b
Max(a, b) == IF a > b THEN a ELSE b

IsPrefixOf(q, full) == Len(q) <= Len(full) /\ q = SubSeq(full, 1, Len(q))

\* C3 as stated: for every topK, negative ones included, the returned list
\* has at most topK elements, and for topK >= 0 it has exactly
\* min(topK, number of non-excluded candidates) elements and is a prefix of
\* the full ranking.
C3_TruncationAsStated ==
    Returned =>
        /\ Len(recommendations) <= max_recommendations
        /\ max_recommendations >= 0 =>
              /\ Len(recommendations) = Min(max_recommendations, Len(NonExcluded))
              /\ IsPrefixOf(recommendations, FullRanking)

\* C3 (Truncation), amended: for topK >= 0 the returned list has at most
\* topK elements; when ranking does not fail soft it is the prefix of the
\* full ranking of length min(topK, n) for topK >= 0 and of length
\* max(0, n + topK) for topK < 0 (n the number of non-excluded candidates);
\* when ranking fails soft it is empty.
C3_Truncation ==
    Returned =>
        LET full == FullRanking
            failed == NonExcluded /= <<>> /\ full = <<>>
        IN  /\ max_recommendations >= 0 => Len(recommendations) <= max_recommendations
            /\ IsPrefixOf(recommendations, full)
            /\ ~failed =>
                  Len(recommendations) =
                      IF max_recommendations >= 0
                      THEN Min(max_recommendations, Len(NonExcluded))
                      ELSE Max(0, Len(NonExcluded) + max_recommendations)
            /\ failed => recommendations = <<>>

\* A negative topK returned a list longer than topK: the full ranking of
\* three candidates without its last one.
C3_Witness ==
    /\ Returned
    /\ max_recommendations < 0
    /\ Len(NonExcluded) = 3
    /\ Len(recommendations) = 2

(***************************************************************************)
(* Claims about get_recommendations (SpecRecommend).                       *)
(***************************************************************************)
SameButAgents(relaxed, strict) ==
    /\ relaxed.keywords = strict.keywords
    /\ relaxed.wordcount_min = strict.wordcount_min
    /\ relaxed.wordcount_max = strict.wordcount_max
    /\ relaxed.datePublished_min = strict.datePublished_min
    /\ relaxed.datePublished_max = strict.datePublished_max
    /\ relaxed.inLanguage = PyNone /\ strict.inLanguage = PyNone
    /\ relaxed.author_name = PyNone /\ relaxed.publisher = PyNone

ReturnedEmpty(i) == searches[i].status = "returned" /\ searches[i].articles = <<>>

RelaxationInvariant ==
    /\ Len(searches) <= 2
    /\ Len(searches) = 2 =>
          /\ ReturnedEmpty(1)
          /\ SameButAgents(searches[2].args, searches[1].args)
    /\ (Len(searches) = 1 /\ ReturnedEmpty(1)) => pc = "relax"
    /\ (Len(searches) = 2 /\ ReturnedEmpty(2)) =>
          /\ pc \in {"rank", "done"}
          /\ pc = "done" => recommendations = <<>>

\* the retry is the step that follows the empty strict result, and no step
\* starts an invocation otherwise
RelaxationStep ==
    /\ (Len(searches) = 1 /\ ReturnedEmpty(1)) => Len(searches') = 2
    /\ Len(searches') > Len(searches) =>
          \/ searches = <<>>
          \/ Len(searches) = 1 /\ ReturnedEmpty(1)

\* C4 (Relaxation protocol): advanced_search is invoked a second time if and
\* only if the first invocation returned an empty sequence, and never a
\* third time; the second invocation has author_name and publisher cleared
\* and the same keywords, word-count bounds, date bounds and unrestricted
\* language as the first; if the second result is also empty,
\* get_recommendations returns an empty list.
C4_RelaxationProtocol == []RelaxationInvariant /\ [][RelaxationStep]_vars

\* A call whose strict search named an author, found nothing, was retried
\* without the author, found nothing again, and returned [].
C4_Witness ==
    /\ pc = "done"
    /\ Len(searches) = 2
    /\ ReturnedEmpty(2)
    /\ searches[1].args.author_name /= PyNone
    /\ recommendations = <<>>

TransportFailed(i) ==
    \E j \in 1..Len(searches[i].queries) : searches[i].queries[j].answer = "transport_error"

\* C5 (Upstream unavailability is never fatal): for any non-empty history,
\* if the HTTP call of a candidate search fails in either retrieval stage,
\* that stage is treated as returning zero candidates and
\* get_recommendations returns a list instead of raising.
C5_UpstreamNeverFatal ==
    \A i \in 1..Len(searches) :
        (user_history /= <<>> /\ TransportFailed(i)) =>
            /\ pc /= "raised"
            /\ searches[i].status = "returned"
            /\ searches[i].articles = <<>>

\* every history url was asked for and the triple query gave no rows or
\* failed for each of them
NothingMaterialized ==
    /\ hidx > Len(user_history)
    /\ \A i \in 1..Len(fetched) :
          fetched[i].kind = "bindings" => fetched[i].rows = <<>>

\* C6 (Empty history or empty materialization): get_recommendations returns
\* an empty list, without raising and without issuing any candidate search,
\* when the history is empty or when every history url materializes from an
\* empty tuple set (the triple query returns no rows or fails).
C6_EmptyMaterializationReturnsEmpty ==
    (pc /= "materialize" /\ NothingMaterialized) =>
        /\ pc = "done"
        /\ searches = <<>>
        /\ recommendations = <<>>

(***************************************************************************)
(* Claims about _extract_user_preferences (SpecPrefs).                     *)
(***************************************************************************)
Extracted == pc = "search"

\* The word counts of the history records, in history order: all of them,
\* and those the extractor keeps (a count of 0 is falsy and is left out).
HistoryWordCounts ==
    LET Has(a) == DictGet(a, "wordCount").t = "int"
        kept == SelectSeq(viewed_articles, Has)
    IN [i \in 1..Len(kept) |-> DictGet(kept[i], "wordCount").v]

NonZeroWordCounts == LET NonZero(n) == n /= 0 IN SelectSeq(HistoryWordCounts, NonZero)

\* The k-th smallest value of a sequence of integers.
KthSmallest(q, k) ==
    CHOOSE x \in {q[i] : i \in 1..Len(q)} :
        /\ Cardinality({i \in 1..Len(q) : q[i] < x}) < k
        /\ k <= Cardinality({i \in 1..Len(q) : q[i] <= x})

\* 100 times the linear-interpolated pct-th percentile of q: the value at
\* position 1 + pct/100 * (n - 1) of the sorted sequence, interpolated
\* between its two neighbours.
Percentile100(q, pct) ==
    LET position100 == pct * (Len(q) - 1)
        below == position100 \div 100 + 1
        above == Min(below + 1, Len(q))
    IN 100 * KthSmallest(q, below)
       + (position100 % 100) * (KthSmallest(q, above) - KthSmallest(q, below))

\* C9 as stated: for any non-empty sequence of history word counts,
\* wordcount_min and wordcount_max are the linear-interpolated 25th and
\* 75th percentile of those counts.
C9_PercentileAsStated ==
    (Extracted /\ HistoryWordCounts /= <<>>) =>
        /\ preferences.wordcount_min.t = "int"
        /\ preferences.wordcount_max.t = "int"
        /\ 100 * preferences.wordcount_min.v = Percentile100(HistoryWordCounts, 25)
        /\ 100 * preferences.wordcount_max.v = Percentile100(HistoryWordCounts, 75)

\* n is the integer part of the non-negative rational x100 / 100
IsIntegerPartOf(n, x100) == 100 * n <= x100 /\ x100 < 100 * (n + 1)

\* C9 (Percentile correctness), amended: wordcount_min and wordcount_max
\* are the integer parts of the linear-interpolated 25th and 75th
\* percentile of the non-zero word counts of the history, whenever there
\* is one; in particular word counts [100,200,300,400] yield
\* wordcount_min = 175 and wordcount_max = 325.
C9_PercentileTruncated ==
    Extracted =>
        /\ NonZeroWordCounts /= <<>> =>
              /\ preferences.wordcount_min.t = "int"
              /\ preferences.wordcount_max.t = "int"
              /\ IsIntegerPartOf(preferences.wordcount_min.v,
                                 Percentile100(NonZeroWordCounts, 25))
              /\ IsIntegerPartOf(preferences.wordcount_max.v,
                                 Percentile100(NonZeroWordCounts, 75))
        /\ HistoryWordCounts = <<100, 200, 300, 400>> =>
              /\ preferences.wordcount_min = PyInt(175)
              /\ preferences.wordcount_max = PyInt(325)

\* Word counts whose percentiles fall between two integers were reduced to
\* bounds, here 100 and 150 to 112 and 137.
C9_Witness ==
    /\ Extracted
    /\ HistoryWordCounts = <<100, 150>>
    /\ preferences.wordcount_min = PyInt(112)
    /\ preferences.wordcount_max = PyInt(137)

\* The flattened keyword tokens of the history, in input order.
KeywordTokens == CollectKeywords(viewed_articles)

\* The distinct tokens with, for each, its number of occurrences, the
\* position of its first appearance, and its rank: the number of tokens
\* that come before it, a token coming before another when it has more
\* occurrences, or as many and an earlier first appearance.
KeywordStatistics ==
    LET tokens == KeywordTokens
        distinct == {tokens[i] : i \in 1..Len(tokens)}
        occurrences == [t \in distinct |-> Cardinality({i \in 1..Len(tokens) : tokens[i] = t})]
        first == [t \in distinct |->
                     CHOOSE i \in 1..Len(tokens) :
                         tokens[i] = t /\ \A j \in 1..(i - 1) : tokens[j] /= t]
        Before(a, b) ==
            \/ occurrences[a] > occurrences[b]
            \/ occurrences[a] = occurrences[b] /\ first[a] < first[b]
        rank == [t \in distinct |-> Cardinality({u \in distinct : Before(u, t)})]
    IN [distinct |-> distinct, occurrences |-> occurrences, first |-> first, rank |-> rank]

\* C10 (Keyword ranking): the profile's keywords string is the space-joined
\* list of the (at most) 10 keyword tokens with the highest occurrence
\* count over the flattened keywords of all history records, in descending
\* count order, tokens with equal counts being ordered (and selected at the
\* cut-off) by first appearance; token casing is preserved.
C10_KeywordRanking ==
    (Extracted /\ KeywordTokens /= <<>>) =>
        LET stats == KeywordStatistics
            TokenOfRank(i) == CHOOSE t \in stats.distinct : stats.rank[t] = i - 1
        IN preferences.keywords =
               PyStr(JoinSpace([i \in 1..Min(TopKeywords, Cardinality(stats.distinct)) |->
                                   TokenOfRank(i).v]))

\* More than 10 distinct tokens, one of them repeated, with equal counts on
\* both sides of the cut-off, and two tokens that differ in case only.
C10_Witness ==
    /\ Extracted
    /\ LET stats == KeywordStatistics
       IN /\ Cardinality(stats.distinct) > TopKeywords + 1
          /\ \E t \in stats.distinct : stats.occurrences[t] > 1 /\ stats.first[t] > 1
          /\ \E t, u \in stats.distinct :
                /\ stats.rank[t] = TopKeywords - 1
                /\ stats.rank[u] = TopKeywords
                /\ stats.occurrences[t] = stats.occurrences[u]
          /\ {PyStr("robot"), PyStr("Robot")} \subseteq stats.distinct

(***************************************************************************)
(* Further claims about _rank_articles (SpecRank).                         *)
(***************************************************************************)
\* The candidate a returned record was copied from: the record without the
\* two scores.
CandidateOf(r) == PyDict([k \in DOMAIN r.v \ {"similarity_score", "final_score"} |-> r.v[k]])

\* The scores of the i-th returned record: similarity and metadata score in
\* tenths, final score in hundredths.
SimilarityOf(i) == recommendations[i].v["similarity_score"].v
MetadataOf(i) == _calculate_metadata_similarity(CandidateOf(recommendations[i]), preferences)

\* C11 (Score bounds): for every candidate returned by _rank_articles the
\* metadata score lies in [0, 1] and final_score equals 0.7 times its
\* similarity score plus 0.3 times its metadata score, so that final_score
\* lies in [0, 1] whenever the similarity score does.
C11_ScoreBounds ==
    Returned =>
        \A i \in 1..Len(recommendations) :
            /\ MetadataOf(i).ok
            /\ 0 <= MetadataOf(i).val /\ MetadataOf(i).val <= 10
            /\ FinalScore(i) = 7 * SimilarityOf(i) + 3 * MetadataOf(i).val
            /\ (0 <= SimilarityOf(i) /\ SimilarityOf(i) <= 10) =>
                  (0 <= FinalScore(i) /\ FinalScore(i) <= 100)

\* A returned candidate with all three metadata components matched and a
\* similarity of 0.3, and another one with the highest similarity and no
\* metadata match.
C11_Witness ==
    /\ Returned
    /\ \E i \in 1..Len(recommendations) :
          /\ MetadataOf(i).ok /\ MetadataOf(i).val = 10
          /\ SimilarityOf(i) = 3
          /\ FinalScore(i) = 51
    /\ \E i \in 1..Len(recommendations) :
          /\ MetadataOf(i).ok /\ MetadataOf(i).val = 0
          /\ SimilarityOf(i) = 10
          /\ FinalScore(i) = 70

\* No viewed and no candidate text has a character n-gram.
AllTextsDegenerate ==
    /\ \A i \in 1..Len(viewed_articles) : Len(Surrogate(viewed_articles[i])) < 3
    /\ \A i \in 1..Len(candidate_articles) : Len(Surrogate(candidate_articles[i])) < 3

\* C12 (Soft failure of ranking): when the text surrogates of all viewed and
\* candidate articles are degenerate, so that vectorization fails,
\* _rank_articles returns an empty list and does not raise.
C12_SoftFailure ==
    (pc /= "rank" /\ AllTextsDegenerate) => (pc = "done" /\ recommendations = <<>>)

\* Candidates outside the history and a positive topK, all texts empty: the
\* call returned [].
C12_Witness ==
    /\ Returned
    /\ AllTextsDegenerate
    /\ NonExcluded /= <<>>
    /\ max_recommendations > 0
    /\ recommendations = <<>>

(***************************************************************************)
(* Further claims about _extract_user_preferences (SpecPrefs).             *)
(***************************************************************************)
\* Some record has, in `field`, an agent (the single object or an element
\* of the list) with a non-empty name.
SomeNamedAgent(field) ==
    \E i \in 1..Len(viewed_articles) :
        LET value == DictGet(viewed_articles[i], field)
            Named(agent) == /\ agent.t = "dict"
                            /\ "name" \in DOMAIN agent.v
                            /\ agent.v["name"].t = "str"
                            /\ agent.v["name"].v /= ""
        IN \/ Named(value)
           \/ value.t = "list" /\ \E j \in 1..Len(value.v) : Named(value.v[j])

\* Some record has a datePublished that parses as an ISO-8601 date.
SomeParseableDate ==
    \E i \in 1..Len(viewed_articles) :
        LET value == DictGet(viewed_articles[i], "datePublished")
        IN value.t = "str" /\ value.v /= "" /\ FromIsoFormat(ReplaceZ(value.v)).ok

C20_WordCountSample ==
    Extracted =>
        /\ preferences.wordcount_min = PyNone <=> HistoryWordCounts = <<>>
        /\ preferences.wordcount_max = PyNone <=> HistoryWordCounts = <<>>
        /\ HistoryWordCounts /= <<>> =>
              /\ preferences.wordcount_min.t = "int"
              /\ preferences.wordcount_max.t = "int"
              /\ IsIntegerPartOf(preferences.wordcount_min.v,
                                 Percentile100(HistoryWordCounts, 25))
              /\ IsIntegerPartOf(preferences.wordcount_max.v,
                                 Percentile100(HistoryWordCounts, 75))

(***************************************************************************)
(* Further claims about populate_article_data (SpecDedup).                 *)
(***************************************************************************)
\* The rows processed so far.
Processed == SubSeq(results, 1, ridx - 1)

\* The rows among q with the given predicate whose paired @type sub-value
\* is Person or Organization.
TypedAgentRows(q, field) ==
    LET Typed(row) ==
            /\ IsTerm(BindingValue(row, "p"), field)
            /\ IsTerm(BindingValue(row, "subP"), "@type")
            /\ BindingValue(row, "subO") \in {PyStr("Person"), PyStr("Organization")}
    IN SelectSeq(q, Typed)

\* x is a Person or an Organization record with its complete field set.
IsAgentRecord(x) == x.t = "dict" /\ DOMAIN x.v \in {PersonFields, OrganizationFields}

\* C14: for author and publisher tuples, a tuple whose paired @type
\* sub-value is missing or is neither Person nor Organization adds no
\* element to the collection; consequently every element of the author and
\* publisher collections is a Person or Organization record carrying its
\* complete fixed field set.
C14_UntypedAgentsSkipped ==
    \A field \in {"author", "publisher"} :
        /\ Len(article_data[field].v) <= Len(TypedAgentRows(Processed, field))
        /\ \A i \in 1..Len(article_data[field].v) : IsAgentRecord(article_data[field].v[i])


\* The rows of the input with the given predicate.
RowsOf(field) ==
    {i \in 1..Len(results) : IsTerm(BindingValue(results[i], "p"), field)}

\* C15: when the input has an editor tuple whose paired @type sub-value is
\* Person (respectively Organization), the returned record's editor is a
\* sequence containing the Person (respectively Organization) record built
\* from all the tuples whose outer object is that editor object.
C15_EditorMaterialized ==
    pc = "materialized" =>
        \A i \in RowsOf("editor") :
            LET result == results[i]
                typed == IsTerm(BindingValue(result, "subP"), "@type")
                sub_object == BindingValue(result, "subO")
                built == IF sub_object = PyStr("Person")
                         THEN populate_person(result, PyList(results))
                         ELSE populate_organization(result, PyList(results))
            IN (typed /\ sub_object \in {PyStr("Person"), PyStr("Organization")}) =>
                   /\ article_data["editor"].t = "list"
                   /\ InSeq(built.val, article_data["editor"].v)

\* C16: when the input has an audio (respectively video) tuple, the returned
\* record's audio (respectively video) collection contains the media record
\* the Audio (Video) builder makes from the sub-tuples of that tuple's object.
C16_AudioVideoMaterialized ==
    pc = "materialized" =>
        /\ \A i \in RowsOf("audio") :
               LET built == populate_audio_data(results[i], PyList(results))
               IN built.ok => InSeq(built.val, article_data["audio"].v)
        /\ \A i \in RowsOf("video") :
               LET built == populate_video_data(results[i], PyList(results))
               IN built.ok => InSeq(built.val, article_data["video"].v)


(***************************************************************************)
(* Materialization of rows with media of both kinds, malformed numbers,    *)
(* predicates the loop has no branch for, and url rows.                    *)
(***************************************************************************)
FrameRows ==
    {Row("headline", "h1"),
     Row("wordCount", "150"),
     Row("wordCount", "x"),
     SubRow("author", "o1", "@type", "Person"),
     SubRow("image", "i1", "url", "pic1"),
     SubRow("image", "i1", "height", "x"),
     SubRow("image", "i2", "height", "07"),
     SubRow("thumbnail", "i1", "url", "pic1"),
     SubRow("thumbnail", "i2", "height", "07"),
     SubRow("thumbnail", "i3", "width", "x"),
     SubRow("creator", "o1", "name", "Ann"),
     Row("isAccessibleForFree", "true"),
     Row("url", "u2"),
     Row("url", "u3")}

FrameInit ==
    /\ RecoIdle
    /\ pc = "populate"
    /\ results \in SeqsUpTo(FrameRows, MaxTuples)
    /\ url = "u1"
    /\ article_data = InitialArticle(url)
    /\ ridx = 1

SpecFrame == FrameInit /\ [][MatNext]_vars

Least(set) == CHOOSE i \in set : \A j \in set : i <= j
Greatest(set) == CHOOSE i \in set : \A j \in set : j <= i

\* The record the Image builder makes for row i of the input, if it makes one.
ImageBuild(i) == populate_image_data(results[i], PyList(results))

\* The rows of the given predicate for which the Image builder returns.
BuiltRowsOf(field) == {i \in RowsOf(field) : ImageBuild(i).ok}

\* The first row of the given predicate whose build is the record x.
FirstBuild(field, x) ==
    Least({i \in BuiltRowsOf(field) : ImageBuild(i).val = x})

\* image holds each record built for an image row once, in the order of
\* the first row that built it.
ImageFirstOccurrences ==
    LET image == article_data["image"].v
    IN /\ NoDuplicates(image)
       /\ {image[k] : k \in 1..Len(image)} = {ImageBuild(i).val : i \in BuiltRowsOf("image")}
       /\ \A a, b \in 1..Len(image) :
              a < b => FirstBuild("image", image[a]) < FirstBuild("image", image[b])

\* C17 (as stated): thumbnail is the record built for the last thumbnail
\* tuple of the input, and image holds each distinct built image record
\* exactly once, in order of first occurrence.
C17_ThumbnailOfLastTuple ==
    pc = "materialized" =>
        /\ RowsOf("thumbnail") /= {} =>
               LET last == Greatest(RowsOf("thumbnail"))
               IN ImageBuild(last).ok /\ article_data["thumbnail"] = ImageBuild(last).val
        /\ ImageFirstOccurrences

\* C17 (amended): thumbnail is the record built for the last thumbnail
\* tuple for which the Image builder returns a record, and the empty list
\* it was initialised to when there is none; image holds each distinct
\* built image record exactly once, in order of first occurrence.
C17_ThumbnailOfLastBuild ==
    pc = "materialized" =>
        /\ article_data["thumbnail"] =
               IF BuiltRowsOf("thumbnail") = {} THEN PyList(<<>>)
               ELSE ImageBuild(Greatest(BuiltRowsOf("thumbnail"))).val
        /\ ImageFirstOccurrences

\* Two thumbnail tuples built different records and the later one was
\* kept, while an image record built twice is held once.
C17_Witness ==
    /\ pc = "materialized"
    /\ \E i, j \in BuiltRowsOf("thumbnail") :
           /\ i < j
           /\ ImageBuild(i).val /= ImageBuild(j).val
           /\ article_data["thumbnail"] = ImageBuild(j).val
    /\ Cardinality(BuiltRowsOf("image")) >= 1
    /\ Len(article_data["image"].v) = 1


\* The predicates the loop of populate_article_data has a branch for.
EntityPredicates == {"author", "publisher", "image", "thumbnail", "audio", "video", "editor"}
RecognisedPredicates == ScalarPredicates \cup {"wordCount", "keywords"} \cup EntityPredicates

Unrecognised(row) == TermOf(BindingValue(row, "p")) \notin RecognisedPredicates

\* The sequence q without its i-th element.
Without(q, i) == SubSeq(q, 1, i - 1) \o SubSeq(q, i + 1, Len(q))

\* No entity tuple of the input other than row i has the object of row i.
ObjectOfNoEntity(i) ==
    \A j \in 1..Len(results) :
        (j /= i /\ TermOf(BindingValue(results[j], "p")) \in EntityPredicates)
            => BindingValue(results[j], "o") /= BindingValue(results[i], "o")

\* C18 (as stated): a tuple whose predicate is not a recognised one, at any
\* position of the input, leaves the returned record as it is without it.
C18_UnknownPredicateIgnored ==
    pc = "materialized" =>
        \A i \in 1..Len(results) :
            Unrecognised(results[i]) =>
                article_data = populate_article_data(Without(results, i), url)

\* C18 (amended): a tuple whose predicate is not a recognised one, at any
\* position of the input, leaves the returned record as it is without it,
\* provided its object is not the object of an entity tuple (author,
\* publisher, image, thumbnail, audio, video, editor) of the input.
C18_UnknownPredicateOfOtherObjectIgnored ==
    pc = "materialized" =>
        \A i \in 1..Len(results) :
            (Unrecognised(results[i]) /\ ObjectOfNoEntity(i)) =>
                article_data = populate_article_data(Without(results, i), url)

\* A tuple of an unrecognised predicate sits between two tuples that both
\* contributed to the returned record.
C18_Witness ==
    /\ pc = "materialized"
    /\ Len(results) = 3
    /\ Unrecognised(results[2])
    /\ ObjectOfNoEntity(2)
    /\ article_data["headline"] /= PyNone
    /\ Len(article_data["author"].v) = 1


\* Row i carries a literal that int() rejects where a number is read: as
\* the object of wordCount, or as the sub-value of a height or a width.
Malformed(row) ==
    \/ /\ IsTerm(BindingValue(row, "p"), "wordCount")
       /\ ~PyIntParse(BindingValue(row, "o")).ok
    \/ /\ TermOf(BindingValue(row, "subP")) \in IntFields
       /\ ~PyIntParse(BindingValue(row, "subO")).ok

\* C19: a tuple carrying a non-integer literal for wordCount or for a media
\* height or width is skipped alone: the returned record has in every
\* scalar field and every embedded entity the value it has when that tuple
\* is absent from the input.
C19_MalformedTupleSkippedAlone ==
    pc = "materialized" =>
        \A i \in 1..Len(results) :
            Malformed(results[i]) =>
                article_data = populate_article_data(Without(results, i), url)


(***************************************************************************)
(* Further claims about _extract_user_preferences (SpecPrefs).             *)
(***************************************************************************)
\* The agents of one field over the whole history, in input order: the
\* single object of a record, or the elements of its list.
HistoryAgents(field) ==
    LET AgentsOf(article) ==
            LET value == DictGet(article, field)
            IN IF value.t = "list" THEN value.v
               ELSE IF value.t = "dict" THEN <<value>>
               ELSE <<>>
    IN FlatSeq([i \in 1..Len(viewed_articles) |-> AgentsOf(viewed_articles[i])])

\* The names of those agents that have one.
HistoryNames(field) ==
    LET Named(agent) == /\ agent.t = "dict"
                        /\ "name" \in DOMAIN agent.v
                        /\ agent.v["name"].t = "str"
                        /\ agent.v["name"].v /= ""
        kept == SelectSeq(HistoryAgents(field), Named)
    IN [i \in 1..Len(kept) |-> kept[i].v["name"]]

FirstIndex(x, q) == Least({i \in 1..Len(q) : q[i] = x})

\* n occurs most often in q, and before every other name occurring as often.
IsPreferred(n, q) ==
    /\ InSeq(n, q)
    /\ \A i \in 1..Len(q) :
           q[i] /= n =>
               \/ Count(n, q) > Count(q[i], q)
               \/ Count(n, q) = Count(q[i], q) /\ FirstIndex(n, q) < FirstIndex(q[i], q)

\* C21: author_name (respectively publisher) of the profile is the name
\* occurring most often among the names of all author (publisher) agents of
\* the history, single objects and list elements alike, agents without a
\* name being skipped; among names of the same highest count it is the one
\* that appears first in the input.
C21_PreferredAgent ==
    Extracted =>
        /\ HistoryNames("author") /= <<>> =>
               IsPreferred(preferences.author_name, HistoryNames("author"))
        /\ HistoryNames("publisher") /= <<>> =>
               IsPreferred(preferences.publisher, HistoryNames("publisher"))

\* The history has a list of authors and an agent without a name; two
\* names share the highest count, and the one chosen is the first of them
\* in the input, not the last.
C21_Witness ==
    /\ Extracted
    /\ \E i, k \in 1..Len(viewed_articles) :
           /\ DictGet(viewed_articles[i], "author").t = "list"
           /\ Len(DictGet(viewed_articles[i], "author").v) = 2
           /\ DictGet(viewed_articles[k], "author") = PyList(<<PyDict([name |-> PyStr("")])>>)
    /\ LET names == HistoryNames("author")
       IN /\ names /= <<>>
          /\ \E a, b \in 1..Len(names) :
                 /\ names[a] /= names[b]
                 /\ Count(names[a], names) = Count(names[b], names)
                 /\ preferences.author_name = names[a]
          /\ names[Len(names)] /= preferences.author_name


\* The parsed datePublished values of the history, in input order.
ParseableDates ==
    LET Parses(article) ==
            LET value == DictGet(article, "datePublished")
            IN value.t = "str" /\ value.v /= "" /\ FromIsoFormat(ReplaceZ(value.v)).ok
        kept == SelectSeq(viewed_articles, Parses)
    IN [i \in 1..Len(kept) |-> FromIsoFormat(ReplaceZ(DictGet(kept[i], "datePublished").v)).val]

\* The instant of a datetime, an offset-naive one read as UTC.
Instant(d) == d.secs - d.off

\* Every author and publisher of the history is a record or a list of
\* records (so that no agent makes the extractor raise).
AgentsWellFormed ==
    CollectAgents(viewed_articles, "author").ok /\ CollectAgents(viewed_articles, "publisher").ok

\* C22: whatever strings the datePublished values of the history are (with
\* a UTC offset or a trailing Z, without an offset, or unparsable), the
\* extractor completes, and datePublished_min and datePublished_max are the
\* earliest and the latest of the parseable values.
C22_DateBoundsNeverFatal ==
    (pc /= "extract" /\ AgentsWellFormed) =>
        /\ Extracted
        /\ ParseableDates /= <<>> =>
               /\ InSeq(preferences.datePublished_min, ParseableDates)
               /\ InSeq(preferences.datePublished_max, ParseableDates)
               /\ \A i \in 1..Len(ParseableDates) :
                      /\ Instant(preferences.datePublished_min) <= Instant(ParseableDates[i])
                      /\ Instant(ParseableDates[i]) <= Instant(preferences.datePublished_max)


(***************************************************************************)
(* _calculate_metadata_similarity as _rank_articles applies it to one      *)
(* candidate: candidates with every shape of author and publisher and with *)
(* word counts inside, outside and at the ends of the bounds; profiles     *)
(* with and without each preference, and with a bound of 0.                *)
(***************************************************************************)
ScoreAuthors ==
    {PyNone, PyStr("Ann"), Agent("Ann"), Agent("Bob"), PyList(<<Agent("Bob"), Agent("Ann")>>)}
ScorePublishers == {PyNone, Agent("ACME"), PyList(<<Agent("ACME")>>), Agent("Other")}
ScoreWordCounts == {PyNone, PyInt(0), PyInt(5), PyInt(10), PyInt(100), PyInt(250)}

ScoreCandidates ==
    {PyDict([url |-> PyStr("u9"), headline |-> PyStr("AI research"),
             author |-> a, publisher |-> p, wordCount |-> n]) :
        a \in ScoreAuthors, p \in ScorePublishers, n \in ScoreWordCounts}

ScoreBounds == {<<PyNone, PyNone>>, <<PyInt(100), PyInt(200)>>, <<PyInt(0), PyInt(10)>>}

ScoreProfiles ==
    {[keywords |-> PyStr("ai"),
      wordcount_min |-> b[1],
      wordcount_max |-> b[2],
      author_name |-> a,
      publisher |-> p,
      datePublished_min |-> PyNone,
      datePublished_max |-> PyNone] :
        a \in {PyNone, PyStr("Ann")}, p \in {PyNone, PyStr("ACME")}, b \in ScoreBounds}

ScoreInit ==
    /\ MatIdle
    /\ pc = "rank"
    /\ viewed_articles = <<ArticleWith("u1", [headline |-> PyStr("AI breakthrough")])>>
    /\ candidate_articles \in {<<c>> : c \in ScoreCandidates}
    /\ preferences \in ScoreProfiles
    /\ user_history = <<"u1">>
    /\ max_recommendations = DefaultMaxRecommendations
    /\ similarity \in Similarities
    /\ hidx = 0
    /\ fetched = <<>>
    /\ searches = <<>>
    /\ recommendations = <<>>

SpecScore == ScoreInit /\ [][RankArticles]_vars

\* The metadata score (in tenths) that went into the final score of the
\* i-th recommendation.
MetadataIn(i) == (FinalScore(i) - ContentWeight * SimilarityOf(i)) \div MetadataWeight

\* The names of the agent records of a candidate's author or publisher
\* field: of the single record, or of the records of the list.
CandidateNames(value) ==
    IF value.t = "dict" THEN {DictGet(value, "name")}
    ELSE IF value.t = "list"
         THEN {DictGet(value.v[i], "name") : i \in {j \in 1..Len(value.v) : value.v[j].t = "dict"}}
    ELSE {}

\* The score the stated formula gives, in tenths.
StatedMetadataScore(candidate, prefs) ==
    LET count == DictGet(candidate, "wordCount")
    IN (IF prefs.author_name /= PyNone
           /\ prefs.author_name \in CandidateNames(DictGet(candidate, "author"))
        THEN 3 ELSE 0)
       + (IF prefs.publisher /= PyNone
            /\ prefs.publisher \in CandidateNames(DictGet(candidate, "publisher"))
          THEN 3 ELSE 0)
       + (IF /\ prefs.wordcount_min /= PyNone /\ prefs.wordcount_max /= PyNone
             /\ count /= PyNone
             /\ prefs.wordcount_min.v <= count.v /\ count.v <= prefs.wordcount_max.v
          THEN 4 ELSE 0)

\* C23: the metadata score is exactly 0.3 if a candidate author name is the
\* profile's author_name, plus 0.3 if a candidate publisher name is the
\* profile's publisher, plus 0.4 if both word-count bounds are present,
\* whatever their values (0 included), and the candidate's word count lies
\* between them, both ends inclusive.
C23_MetadataFormula ==
    Returned =>
        /\ Len(recommendations) = 1
        /\ MetadataIn(1) = StatedMetadataScore(candidate_articles[1], preferences)


(***************************************************************************)
(* Further claims about get_recommendations (SpecRecommend).               *)
(***************************************************************************)
\* The stages of get_recommendations, in program order; the queries and the
\* relaxed retry are all inside candidate retrieval.
StageOf(p) ==
    CASE p = "materialize" -> 1
      [] p = "extract" -> 2
      [] p \in {"search", "exact", "partial", "relax"} -> 3
      [] p = "rank" -> 4
      [] OTHER -> 5

\* What each stage has and has not yet produced.
StageInvariant ==
    /\ pc = "materialize" => Len(fetched) = hidx - 1
    /\ StageOf(pc) \in {2, 3, 4} => Len(fetched) = Len(user_history) /\ viewed_articles /= <<>>
    /\ StageOf(pc) <= 2 => preferences = PyNone /\ searches = <<>>
    /\ StageOf(pc) \in {3, 4} => preferences /= PyNone
    /\ pc = "search" => searches = <<>>
    /\ pc = "rank" => searches /= <<>> /\ searches[Len(searches)].status = "returned"
    /\ StageOf(pc) <= 4 => recommendations = <<>>

\* One step: the history is fetched url by url in its order, the record of
\* a url joins the viewed articles at that step, the first search starts
\* from the state extraction leaves, ranking is entered from a search that
\* returned and left at once, and no stage is gone back to.
StageStep ==
    /\ StageOf(pc') >= StageOf(pc)
    /\ fetched' /= fetched =>
          /\ pc = "materialize" /\ hidx = Len(fetched) + 1 /\ hidx' = hidx + 1
          /\ Len(fetched') = Len(fetched) + 1
    /\ viewed_articles' /= viewed_articles =>
          /\ fetched' /= fetched
          /\ viewed_articles' = Append(viewed_articles, viewed_articles'[Len(viewed_articles')])
          /\ DictGet(viewed_articles'[Len(viewed_articles')], "url") = PyStr(user_history[hidx])
    /\ preferences' /= preferences => pc = "extract" /\ pc' = "search"
    /\ (searches = <<>> /\ searches' /= <<>>) => pc = "search" /\ preferences /= PyNone
    /\ (pc /= "rank" /\ pc' = "rank") => pc \in {"exact", "partial"}
    /\ pc = "rank" => pc' = "done"
    /\ recommendations' /= recommendations => pc = "rank"

\* The run has returned from _rank_articles.
Ranked == pc = "done" /\ searches /= <<>>

\* C24 (as stated): with a non-empty history the stages run strictly in
\* sequence and ranking runs exactly once: a run that has returned has ranked.
C24_RankingExactlyOnce ==
    /\ StageInvariant
    /\ (pc = "done" /\ user_history /= <<>>) => Ranked

\* C24 (amended): each history url is materialized once, in history order,
\* before preference extraction starts, which it does only if some url
\* yielded a record; the first candidate search is issued only after
\* extraction has completed; ranking runs at most once and only after
\* candidate retrieval has returned; no stage is re-entered after a later
\* one has started.
C24_PipelineOrdering == []StageInvariant /\ [][StageStep]_vars

\* A run over a history of two urls went through every stage, the relaxed
\* retry included, and returned recommendations.
C24_Witness ==
    /\ Ranked
    /\ Len(user_history) = 2
    /\ Len(viewed_articles) = 2
    /\ Len(searches) = 2
    /\ recommendations /= <<>>


\* The fields of a candidate as the search functions build it.
SearchResultFields ==
    {"url", "headline", "abstract", "author", "datePublished", "thumbnailUrl", "keywords"}

\* C25: every candidate that get_recommendations hands to _rank_articles
\* was built by advanced_search, with author a plain string (possibly
\* empty) and without wordCount and publisher; its metadata score is 0, and
\* the final score of every recommendation returned is 0.7 times its
\* similarity score, whatever the profile.
C25_SearchCandidatesScoreNoMetadata ==
    /\ \A i \in 1..Len(candidate_articles) :
           /\ DOMAIN candidate_articles[i].v = SearchResultFields
           /\ DictGet(candidate_articles[i], "author").t = "str"
           /\ preferences /= PyNone =>
                  _calculate_metadata_similarity(candidate_articles[i], preferences) = Ok(0)
    /\ Ranked =>
           \A i \in 1..Len(recommendations) :
               /\ \E j \in 1..Len(candidate_articles) :
                      CandidateOf(recommendations[i]) = candidate_articles[j]
               /\ FinalScore(i) = ContentWeight * SimilarityOf(i)

\* A recommendation was returned whose author string is the profile's
\* preferred author and whose similarity is not 0.
C25_Witness ==
    /\ Ranked
    /\ \E i \in 1..Len(recommendations) :
           /\ DictGet(recommendations[i], "author") = preferences.author_name
           /\ preferences.author_name /= PyNone
           /\ SimilarityOf(i) > 0
           /\ FinalScore(i) = ContentWeight * SimilarityOf(i)


\* The kinds of the queries invocation i of advanced_search has run.
QueryKinds(i) == [j \in 1..Len(searches[i].queries) |-> searches[i].queries[j].query]

\* The queries one call has run so far, over its invocations, in order.
AllQueryKinds ==
    FlatSeq([i \in 1..Len(searches) |->
                [j \in 1..Len(searches[i].queries) |->
                    <<IF i = 1 THEN "strict" ELSE "relaxed", searches[i].queries[j].query>>]])

\* Query j of invocation i returned an empty list.
FoundNothing(i, j) ==
    /\ searches[i].queries[j].answer /= "transport_error"
    /\ searches[i].queries[j].found = 0

TwoTierInvariant ==
    /\ \A i \in 1..Len(searches) :
           /\ QueryKinds(i) \in {<<>>, <<"exact">>, <<"exact", "partial">>}
           /\ QueryKinds(i) = <<"exact", "partial">> => FoundNothing(i, 1)
           /\ (QueryKinds(i) = <<"exact">> /\ FoundNothing(i, 1)) => pc = "partial"
           /\ (searches[i].status = "running" /\ QueryKinds(i) = <<>>) => pc = "exact"
           /\ (searches[i].status = "running" /\ QueryKinds(i) = <<"exact">>) => pc = "partial"
           /\ searches[i].status = "running" => Len(QueryKinds(i)) < 2
           /\ searches[i].status = "returned" =>
                  /\ QueryKinds(i) /= <<>>
                  /\ QueryKinds(i) = <<"exact">> =>
                         /\ searches[i].articles /= <<>>
                         /\ Len(searches[i].articles) = searches[i].queries[1].found
                  /\ searches[i].match_type = "Exact matches" <=> QueryKinds(i) = <<"exact">>
                  /\ QueryKinds(i) = <<"exact", "partial">> =>
                         searches[i].match_type = "Partial matches"
    /\ Len(AllQueryKinds) <= 4
    /\ IsPrefixOf(AllQueryKinds, <<<<"strict", "exact">>, <<"strict", "partial">>,
                                   <<"relaxed", "exact">>, <<"relaxed", "partial">>>>)
    /\ Len(searches) = 2 =>
           /\ QueryKinds(1) = <<"exact", "partial">>
           /\ FoundNothing(1, 1) /\ FoundNothing(1, 2)

\* The partial query is the step that follows an exact query that found
\* nothing, and no other step runs it.
TwoTierStep ==
    /\ pc = "partial" => Len(searches'[Len(searches)].queries) = 2
    /\ (searches /= <<>> /\ Len(searches') = Len(searches)
        /\ Len(searches'[Len(searches)].queries) = 2
        /\ Len(searches[Len(searches)].queries) = 1) => pc = "partial"

\* C26: inside each retrieval stage advanced_search runs the partial-match
\* query if and only if the exact-match query returned an empty list, and
\* labels its result "Exact matches" exactly when it came from the exact
\* query; one call of get_recommendations runs at most four search queries,
\* in the order strict-exact, strict-partial, relaxed-exact,
\* relaxed-partial, the relaxed pair only when both strict queries
\* returned nothing.
C26_TwoTierSearch == []TwoTierInvariant /\ [][TwoTierStep]_vars

\* A call ran all four queries: both strict queries and the relaxed exact
\* query found nothing, and the relaxed partial query found candidates.
C26_Witness ==
    /\ Len(searches) = 2
    /\ Len(AllQueryKinds) = 4
    /\ searches[2].status = "returned"
    /\ searches[2].match_type = "Partial matches"
    /\ searches[2].articles /= <<>>


\* The profile is the one _extract_user_preferences computed.
ProfileAsExtracted == Ok(preferences) = _extract_user_preferences(viewed_articles)

\* C27: _get_candidate_articles never modifies the preferences it receives:
\* during and after retrieval, a relaxation retry included, the profile
\* that get_recommendations passes to _rank_articles carries the
\* author_name, the publisher and every other field that
\* _extract_user_preferences computed.
C27_RelaxationKeepsProfile ==
    /\ [](StageOf(pc) \in {3, 4} \/ Ranked => ProfileAsExtracted)
    /\ [][StageOf(pc) = 3 => preferences' = preferences]_vars

\* Ranking follows a relaxed retry, whose arguments had the author cleared,
\* with a profile that still names the preferred author.
C27_Witness ==
    /\ pc = "rank"
    /\ Len(searches) = 2
    /\ searches[2].args.author_name = PyNone
    /\ searches[1].args.author_name = PyStr("Ann")
    /\ preferences.author_name = PyStr("Ann")


(***************************************************************************)
(* Further claims about _rank_articles (SpecRank).                         *)
(***************************************************************************)
\* Scoring the candidate raises: its metadata comparison does.
ScoringRaises(candidate) == ~_calculate_metadata_similarity(candidate, preferences).ok

SomeScoringRaises == \E i \in 1..Len(NonExcluded) : ScoringRaises(NonExcluded[i])

\* The returned list holds scored copies of that many different elements
\* of the candidate list, none of them excluded.
ScoredCopiesOfNonExcluded(count) ==
    /\ Len(recommendations) = count
    /\ \E f \in [1..Len(recommendations) -> 1..Len(candidate_articles)] :
           /\ \A i \in DOMAIN f :
                  /\ IsScoredCopyOf(recommendations[i], candidate_articles[f[i]])
                  /\ ~InHistory(DictGet(candidate_articles[f[i]], "url"))
           /\ \A i, j \in DOMAIN f : i /= j => f[i] /= f[j]

\* C28 (as stated): if scoring a non-excluded candidate raises,
\* _rank_articles returns an empty list; otherwise it returns one scored
\* copy per non-excluded candidate, up to topK (here for topK >= 0).
C28_AllOrNothingAsStated ==
    Returned =>
        /\ SomeScoringRaises => recommendations = <<>>
        /\ (~SomeScoringRaises /\ max_recommendations >= 0) =>
               ScoredCopiesOfNonExcluded(Min(max_recommendations, Len(NonExcluded)))

\* C28 (amended): if scoring a non-excluded candidate raises, or if
\* vectorization fails because no viewed or candidate text has a character
\* n-gram, _rank_articles returns an empty list, not the ranking of the
\* remaining candidates; otherwise it returns one scored copy per
\* non-excluded candidate, cut by the slice [:topK].
C28_AllOrNothing ==
    Returned =>
        /\ (SomeScoringRaises \/ AllTextsDegenerate) => recommendations = <<>>
        /\ ~(SomeScoringRaises \/ AllTextsDegenerate) =>
               ScoredCopiesOfNonExcluded(
                   IF max_recommendations >= 0
                   THEN Min(max_recommendations, Len(NonExcluded))
                   ELSE Max(0, Len(NonExcluded) + max_recommendations))

\* Of two candidates outside the history one scores and the other raises,
\* and the call, with room for both, returned [].
C28_Witness ==
    /\ Returned
    /\ max_recommendations >= 2
    /\ ~AllTextsDegenerate
    /\ \E i, j \in 1..Len(NonExcluded) :
           ScoringRaises(NonExcluded[i]) /\ ~ScoringRaises(NonExcluded[j])
    /\ recommendations = <<>>


\* The urls of a sequence of records.
UrlsOf(q) == [i \in 1..Len(q) |-> DictGet(q[i], "url")]

\* C29: _rank_articles keeps one output entry per non-excluded element of
\* the candidate list and does not de-duplicate: when nothing fails and
\* topK leaves room for all, every url is returned as many times as it
\* occurs among the non-excluded candidates, so the urls of the output need
\* not be pairwise distinct.
C29_NoDeduplication ==
    (/\ Returned
     /\ ~(SomeScoringRaises \/ AllTextsDegenerate)
     /\ max_recommendations >= Len(NonExcluded)) =>
        /\ Len(recommendations) = Len(NonExcluded)
        /\ \A i \in 1..Len(NonExcluded) :
               Count(UrlsOf(NonExcluded)[i], UrlsOf(recommendations))
                   = Count(UrlsOf(NonExcluded)[i], UrlsOf(NonExcluded))

\* The candidate list held one url twice and the call returned it twice.
C29_Witness ==
    /\ Returned
    /\ Len(recommendations) = 2
    /\ RecommendedUrl(1) = RecommendedUrl(2)
    /\ recommendations[1] = recommendations[2]


\* The processed rows whose predicate is schema:url.
UrlRows == LET IsUrl(row) == IsTerm(BindingValue(row, "p"), "url") IN SelectSeq(Processed, IsUrl)

\* C30: the url field of the record is the url argument until a tuple with
\* predicate schema:url is processed, and from then on the object of the
\* last such tuple in iteration order; no other tuple changes it.
C30_RecordUrl ==
    pc \in {"populate", "materialized"} =>
        article_data["url"] =
            IF UrlRows = <<>> THEN PyStr(url)
            ELSE BindingValue(UrlRows[Len(UrlRows)], "o")

\* Two url tuples with different objects were processed, then a tuple of
\* another predicate, and the record carries the object of the second.
C30_Witness ==
    /\ pc = "materialized"
    /\ Len(results) = 3
    /\ Len(UrlRows) = 2
    /\ BindingValue(results[1], "o") /= BindingValue(results[2], "o")
    /\ ~IsTerm(BindingValue(results[3], "p"), "url")
    /\ article_data["url"] = BindingValue(results[2], "o")
    /\ article_data["url"] /= PyStr(url)

====
